---- MODULE Spec2Model ----
(***************************************************************************)
(* State-machine model of the kawaii face animation engine                 *)
(* (src/lvgl_kawaii_face.c): the animation context face_state, the         *)
(* function-static counters of animation_timer_cb, the public setters and  *)
(* the periodic timer callback.  Floating-point expressions of the idle    *)
(* motion are represented by tables of the values the C expressions yield  *)
(* for the first 32 counter values.                                  *)
(***************************************************************************)
EXTENDS Integers, Sequences, FiniteSets, TLC

(* ---------------------------- bounds ----------------------------------- *)
\* number of timer ticks explored (bounce_counter never exceeds it)
MaxTicks == 11
\* number of public calls (init, deinit, setters, face_animation_update)
\* explored in one behaviour
MaxCalls == 3

(* ------------------------ face_emotion_t ------------------------------- *)
FACE_NEUTRAL == 0
FACE_HAPPY == 1
FACE_WORRIED == 2
FACE_SAD == 3
FACE_SURPRISED == 4
FACE_ANGRY == 5
FACE_SLEEPY == 6
FACE_WINK == 7
FACE_LOVE == 8
FACE_PLAYFUL == 9
FACE_SILLY == 10
FACE_SMIRK == 11
FACE_CRY == 12
FACE_WORKING_HARD == 13
FACE_EXCITED == 14
FACE_CONFUSED == 15
FACE_COOL == 16
FACE_BLINK == 17
FACE_EMOTION_COUNT == 18

DEFAULT_ANIM_SPEED_MS == 30
DEFAULT_BLINK_INTERVAL == 3000

\* the 17 user-selectable emotions
Selectable == FACE_NEUTRAL .. FACE_COOL

(* ------------------------ C integer arithmetic ------------------------- *)
\* conversion to uint8_t / int8_t (value modulo 2^8)
ToUint8(x) == x % 256

ToInt8(x) == IF (x % 256) >= 128 THEN (x % 256) - 256 ELSE x % 256

\* A uint32_t time value (lv_tick_get(), last_blink_time, blink_interval) is
\* the pair of its 16-bit halves, hi * 65536 + lo, so that the arithmetic
\* modulo 2^32 stays within the integers the model checker supports.
U32(hi, lo) == [hi |-> hi, lo |-> lo]

\* a + n modulo 2^32, for 0 <= n < 65536
U32Add(a, n) == [hi |-> (a.hi + ((a.lo + n) \div 65536)) % 65536, lo |-> (a.lo + n) % 65536]

\* a - b modulo 2^32
U32Sub(a, b) ==
  [hi |-> (a.hi - b.hi - (IF a.lo < b.lo THEN 1 ELSE 0)) % 65536, lo |-> (a.lo - b.lo) % 65536]

\* a > b as unsigned 32-bit values
U32Gt(a, b) == a.hi > b.hi \/ (a.hi = b.hi /\ a.lo > b.lo)

\* C integer division, truncating toward zero (b > 0)
CDiv(a, b) == IF a >= 0 THEN a \div b ELSE -((-a) \div b)

(* ---------------- tables of the floating-point expressions ------------- *)
\* Each table lists the values of one C expression, evaluated in IEEE-754
\* arithmetic as written in the source, for the counter values named in its
\* comment (32 values for the tables indexed from 1).

\* HAPPY_pupil_offset_x: src/lvgl_kawaii_face.c:1407, counter = 0..79
HAPPY_pupil_offset_x ==
  <<7, 6, 6, 6, 5, 4, 4, 3, 2, 1, 0, -1, -2, -3, -4, -4, -5, -6, -6, -6,
    -6, -6, -6, -6, -5, -4, -4, -3, -2, -1, 0, 1, 2, 3, 4, 4, 5, 6, 6, 6,
    6, 6, 6, 6, 5, 4, 4, 3, 2, 1, 0, -1, -2, -3, -4, -4, -5, -6, -6, -6,
    -6, -6, -6, -6, -5, -4, -4, -3, -2, -1, 0, 1, 2, 3, 4, 4, 5, 6, 6, 6>>

\* HAPPY_pupil_offset_y: src/lvgl_kawaii_face.c:1408, counter = 0..79
HAPPY_pupil_offset_y ==
  <<0, 0, 1, 1, 2, 2, 3, 3, 3, 3, 3, 3, 3, 3, 3, 2, 2, 1, 1, 0,
    0, 0, -1, -1, -2, -2, -3, -3, -3, -3, -3, -3, -3, -3, -3, -2, -2, -1, -1, 0,
    0, 0, 1, 1, 2, 2, 3, 3, 3, 3, 3, 3, 3, 3, 3, 2, 2, 1, 1, 0,
    0, 0, -1, -1, -2, -2, -3, -3, -3, -3, -3, -3, -3, -3, -3, -2, -2, -1, -1, 0>>

\* WORRIED_pupil_offset_x: src/lvgl_kawaii_face.c:1416, counter = 1..32
WORRIED_pupil_offset_x ==
  <<0, 0, 0, 1, 1, 1, 2, 2, 2, 2, 3, 3, 3, 3, 3, 4, 4, 4, 4, 4,
    4, 4, 4, 4, 4, 4, 4, 4, 4, 4, 4, 4>>

\* WORRIED_pupil_offset_y: src/lvgl_kawaii_face.c:1417, counter = 1..32
WORRIED_pupil_offset_y ==
  <<0, 0, 0, 0, 0, 0, 0, 0, 0, 0, 0, 0, 0, 0, 0, 0, 0, 0, 0, 0,
    0, 0, 0, 0, 0, 0, 0, 0, 0, 0, 0, 0>>

\* LOVE_pupil_offset_x: src/lvgl_kawaii_face.c:1428, counter = 0..49
LOVE_pupil_offset_x ==
  <<6, 5, 5, 5, 5, 4, 4, 3, 3, 2, 1, 1, 0, 0, -1, -1, -2, -3, -3, -4,
    -4, -5, -5, -5, -5, -5, -5, -5, -5, -5, -4, -4, -3, -3, -2, -1, -1, 0, 0, 0,
    1, 2, 3, 3, 4, 4, 5, 5, 5, 5>>

\* LOVE_pupil_offset_y: src/lvgl_kawaii_face.c:1429, counter = 0..49
LOVE_pupil_offset_y ==
  <<0, 0, 0, 1, 1, 2, 2, 3, 3, 3, 3, 3, 3, 3, 3, 3, 3, 3, 3, 2,
    2, 1, 1, 1, 0, 0, 0, 0, -1, -1, -2, -2, -3, -3, -3, -3, -3, -3, -3, -3,
    -3, -3, -3, -3, -2, -2, -2, -1, -1, 0>>

\* CONFUSED_pupil_offset_x: src/lvgl_kawaii_face.c:1486, counter = 1..32
CONFUSED_pupil_offset_x ==
  <<6, 6, 6, 6, 6, 6, 6, 6, 6, 6, 6, 6, 6, 6, 6, 6, 6, 6, 5, 5,
    5, 5, 5, 5, 5, 4, 4, 4, 4, 4, 4, 4>>

\* CONFUSED_pupil_offset_y: src/lvgl_kawaii_face.c:1487, counter = 1..32
CONFUSED_pupil_offset_y ==
  <<0, 0, 0, 0, 1, 1, 1, 1, 2, 2, 2, 2, 3, 3, 3, 3, 3, 3, 4, 4,
    4, 4, 4, 4, 4, 4, 4, 4, 4, 4, 4, 4>>

\* HAPPY_bounce_offset: src/lvgl_kawaii_face.c:1594, counter = 1..32
HAPPY_bounce_offset ==
  <<0, 1, 2, 3, 3, 3, 3, 2, 2, 1, 0, 0, -1, -2, -3, -3, -3, -3, -2, -2,
    -1, 0, 0, 1, 2, 2, 3, 3, 3, 2, 2, 1>>

\* HAPPY_eye_openness: src/lvgl_kawaii_face.c:1598, counter = 1..32
HAPPY_eye_openness ==
  <<90, 93, 96, 98, 99, 99, 99, 97, 94, 91, 87, 89, 93, 96, 98, 99, 99, 99, 97, 95,
    92, 88, 89, 92, 95, 97, 99, 99, 99, 98, 95, 92>>

\* HAPPY_sparkle_phase: src/lvgl_kawaii_face.c:1602, counter = 1..32
HAPPY_sparkle_phase ==
  <<71, 78, 84, 90, 94, 97, 99, 99, 99, 96, 93, 88, 83, 76, 69, 67, 73, 80, 86, 91,
    95, 98, 99, 99, 98, 95, 92, 87, 81, 74, 67, 69>>

\* HAPPY_blush_intensity: src/lvgl_kawaii_face.c:1603, counter = 1..32
HAPPY_blush_intensity ==
  <<74, 76, 78, 80, 82, 84, 86, 87, 88, 89, 89, 89, 89, 89, 88, 87, 86, 84, 83, 81,
    79, 77, 74, 72, 73, 76, 78, 80, 82, 84, 85, 87>>

\* HAPPY_mouth_curve: src/lvgl_kawaii_face.c:1607, counter = 1..32
HAPPY_mouth_curve ==
  <<89, 91, 92, 94, 94, 94, 94, 93, 91, 89, 87, 88, 90, 92, 93, 94, 94, 94, 93, 92,
    90, 87, 88, 90, 92, 93, 94, 94, 94, 93, 92, 90>>

\* WORRIED_bounce_offset: src/lvgl_kawaii_face.c:1615, counter = 1..32
WORRIED_bounce_offset ==
  <<0, 0, 0, 1, 1, 1, 1, 1, 1, 1, 1, 1, 1, 1, 0, 0, 0, 0, 0, 0,
    0, 0, 0, 0, 0, 0, 0, 0, 0, 0, 0, 0>>

\* WORRIED_eyebrow_angle: src/lvgl_kawaii_face.c:1619, counter = 1..32
WORRIED_eyebrow_angle ==
  <<17, 18, 19, 20, 21, 21, 22, 22, 22, 22, 22, 22, 21, 20, 19, 18, 17, 16, 16, 17,
    18, 19, 20, 21, 22, 22, 22, 22, 22, 22, 21, 21>>

\* WORRIED_eyebrow_height: src/lvgl_kawaii_face.c:1621, counter = 1..32
WORRIED_eyebrow_height ==
  <<-6, -7, -7, -8, -9, -9, -9, -9, -9, -9, -9, -9, -9, -8, -8, -7, -6, -6, -6, -7,
    -7, -8, -8, -9, -9, -9, -9, -9, -9, -9, -9, -8>>

\* WORRIED_mouth_curve: src/lvgl_kawaii_face.c:1623, counter = 1..32
WORRIED_mouth_curve ==
  <<23, 25, 26, 27, 29, 30, 31, 32, 33, 33, 33, 33, 33, 33, 33, 32, 31, 30, 29, 28,
    26, 25, 23, 22, 23, 24, 26, 27, 29, 30, 31, 32>>

\* LOVE_bounce_offset: src/lvgl_kawaii_face.c:1631, counter = 1..32
LOVE_bounce_offset ==
  <<0, 0, 0, 0, 1, 1, 1, 1, 1, 1, 1, 1, 1, 1, 1, 1, 1, 1, 1, 1,
    1, 0, 0, 0, 0, 0, 0, 0, 0, 0, -1, -1>>

\* LOVE_eye_openness: src/lvgl_kawaii_face.c:1635, counter = 1..32
LOVE_eye_openness ==
  <<89, 91, 93, 94, 96, 97, 98, 99, 99, 99, 99, 99, 99, 98, 97, 96, 94, 93, 91, 89,
    88, 89, 91, 93, 94, 96, 97, 98, 99, 99, 99, 99>>

\* LOVE_sparkle_phase: src/lvgl_kawaii_face.c:1639, counter = 1..32
LOVE_sparkle_phase ==
  <<78, 85, 91, 95, 98, 99, 99, 97, 93, 88, 82, 75, 75, 81, 88, 93, 97, 99, 99, 98,
    96, 91, 86, 79, 72, 78, 84, 90, 95, 98, 99, 99>>

\* LOVE_heart_beat_phase: src/lvgl_kawaii_face.c:1640, counter = 1..32
LOVE_heart_beat_phase ==
  <<71, 78, 84, 90, 94, 97, 99, 99, 99, 96, 93, 88, 83, 76, 69, 67, 73, 80, 86, 91,
    95, 98, 99, 99, 98, 95, 92, 87, 81, 74, 67, 69>>

\* LOVE_blush_intensity: src/lvgl_kawaii_face.c:1641, counter = 1..32
LOVE_blush_intensity ==
  <<82, 84, 86, 88, 90, 91, 93, 93, 94, 94, 94, 94, 93, 92, 91, 90, 88, 86, 84, 82,
    80, 82, 84, 86, 88, 90, 91, 93, 94, 94, 94, 94>>

\* ANGRY_blush_intensity: src/lvgl_kawaii_face.c:1648, counter = 1..32
ANGRY_blush_intensity ==
  <<48, 55, 61, 66, 67, 67, 64, 58, 51, 43, 44, 52, 59, 64, 67, 67, 65, 61, 55, 47,
    40, 48, 56, 62, 66, 67, 67, 63, 58, 51, 43, 44>>

\* ANGRY_mouth_curve: src/lvgl_kawaii_face.c:1652, counter = 1..32
ANGRY_mouth_curve ==
  <<-39, -36, -35, -35, -38, -41, -44, -48, -49, -49, -47, -44, -41, -37, -35, -35, -36, -39, -42, -46,
    -49, -49, -49, -46, -42, -39, -36, -35, -35, -37, -41, -44>>

\* ANGRY_left_eyebrow_angle: src/lvgl_kawaii_face.c:1654, counter = 1..32
ANGRY_left_eyebrow_angle ==
  <<23, 25, 26, 26, 26, 25, 23, 22, 20, 19, 18, 18, 18, 19, 21, 22, 24, 25, 26, 26,
    26, 24, 23, 22, 20, 18, 18, 18, 18, 20, 22, 23>>

\* ANGRY_right_eyebrow_angle: src/lvgl_kawaii_face.c:1655, counter = 1..32
ANGRY_right_eyebrow_angle ==
  <<-23, -25, -26, -26, -26, -25, -23, -22, -20, -19, -18, -18, -18, -19, -21, -22, -24, -25, -26, -26,
    -26, -24, -23, -22, -20, -18, -18, -18, -18, -20, -22, -23>>

\* SLEEPY_bounce_offset: src/lvgl_kawaii_face.c:1665, counter = 1..32
SLEEPY_bounce_offset ==
  <<0, 0, 0, 0, 0, 0, 0, 0, 1, 1, 1, 1, 1, 1, 1, 1, 1, 1, 2, 2,
    2, 2, 2, 2, 2, 2, 2, 2, 2, 2, 2, 2>>

\* SLEEPY_droop: src/lvgl_kawaii_face.c:1669, counter = 1..32
SLEEPY_droop ==
  <<0, 1, 1, 2, 2, 3, 4, 4, 5, 5, 6, 7, 7, 8, 8, 9, 9, 10, 10, 11,
    11, 12, 12, 13, 13, 14, 14, 14, 15, 15, 16, 16>>

\* SURPRISED_eye_openness: src/lvgl_kawaii_face.c:1684, counter = 1..32
SURPRISED_eye_openness ==
  <<95, 98, 99, 99, 99, 97, 95, 93, 96, 98, 99, 99, 99, 97, 94, 93, 96, 98, 99, 99,
    98, 97, 94, 94, 96, 98, 99, 99, 98, 96, 94, 94>>

\* CRY_bounce_offset: src/lvgl_kawaii_face.c:1693, counter = 1..32
CRY_bounce_offset ==
  <<1, 1, 1, 1, 0, 0, -1, -1, -1, 0, 0, 1, 1, 1, 0, 0, -1, -1, -1, -1,
    0, 1, 1, 1, 1, 0, 0, -1, -1, -1, 0, 0>>

\* CRY_squeeze: src/lvgl_kawaii_face.c:1697, counter = 1..32
CRY_squeeze ==
  <<5, 11, 15, 18, 19, 19, 17, 13, 8, 2, 3, 8, 13, 17, 19, 19, 18, 15, 11, 5,
    0, 6, 11, 15, 18, 19, 19, 17, 13, 8, 2, 3>>

\* CRY_blush_intensity: src/lvgl_kawaii_face.c:1702, counter = 1..32
CRY_blush_intensity ==
  <<32, 37, 41, 43, 44, 44, 42, 39, 34, 29, 29, 34, 39, 42, 44, 44, 43, 40, 36, 32,
    27, 32, 37, 41, 43, 44, 44, 42, 38, 34, 29, 30>>

\* SAD_bounce_offset: src/lvgl_kawaii_face.c:1709, counter = 1..32
SAD_bounce_offset ==
  <<0, 0, 0, 0, 0, 0, 0, 0, 0, 0, 0, 0, 1, 1, 1, 1, 1, 1, 1, 1,
    1, 1, 1, 1, 1, 1, 1, 1, 1, 1, 1, 1>>

\* SAD_pupil_offset_y: src/lvgl_kawaii_face.c:1711, counter = 1..32
SAD_pupil_offset_y ==
  <<3, 3, 3, 3, 4, 4, 4, 4, 4, 5, 5, 5, 5, 5, 5, 5, 5, 5, 5, 5,
    5, 5, 5, 5, 5, 5, 5, 5, 5, 5, 4, 4>>

\* WINK_sparkle_phase: src/lvgl_kawaii_face.c:1718, counter = 1..32
WINK_sparkle_phase ==
  <<49, 56, 63, 69, 73, 77, 79, 79, 79, 76, 72, 67, 61, 54, 47, 44, 51, 58, 65, 70,
    75, 78, 79, 79, 78, 75, 71, 65, 59, 52, 45, 46>>

\* WINK_bounce_offset: src/lvgl_kawaii_face.c:1720, counter = 1..32
WINK_bounce_offset ==
  <<0, 0, 1, 1, 1, 1, 1, 1, 1, 0, 0, 0, 0, 0, 0, -1, -1, -1, -1, -1,
    -1, -1, 0, 0, 0, 0, 0, 0, 1, 1, 1, 1>>

\* SMIRK_left_eyebrow_angle: src/lvgl_kawaii_face.c:1729, counter = 1..32
SMIRK_left_eyebrow_angle ==
  <<12, 13, 14, 15, 15, 16, 17, 17, 18, 18, 19, 19, 19, 19, 19, 19, 19, 19, 19, 19,
    18, 18, 17, 17, 16, 16, 15, 14, 13, 13, 12, 12>>

\* SMIRK_eyebrow_height: src/lvgl_kawaii_face.c:1730, counter = 1..32
SMIRK_eyebrow_height ==
  <<-5, -5, -4, -4, -4, -3, -3, -3, -2, -2, -2, -2, -2, -2, -2, -2, -2, -2, -2, -2,
    -2, -2, -3, -3, -3, -3, -4, -4, -5, -5, -5, -5>>

\* SMIRK_pupil_offset_x: src/lvgl_kawaii_face.c:1733, counter = 1..32
SMIRK_pupil_offset_x ==
  <<3, 3, 3, 4, 4, 4, 4, 5, 5, 5, 5, 5, 6, 6, 6, 6, 6, 6, 6, 6,
    6, 6, 6, 6, 6, 6, 6, 6, 6, 6, 6, 6>>

\* SMIRK_sparkle_phase: src/lvgl_kawaii_face.c:1734, counter = 1..32
SMIRK_sparkle_phase ==
  <<29, 33, 38, 41, 45, 48, 51, 52, 54, 54, 54, 54, 52, 50, 48, 45, 41, 37, 33, 29,
    25, 29, 34, 38, 42, 45, 48, 51, 53, 54, 54, 54>>

\* SMIRK_bounce_offset: src/lvgl_kawaii_face.c:1735, counter = 1..32
SMIRK_bounce_offset ==
  <<0, 0, 0, 0, 0, 0, 0, 0, 0, 0, 0, 0, 0, 0, 0, 0, 0, 0, 0, 0,
    0, 0, 0, 0, 0, 0, 0, 0, 0, 0, 0, 0>>

\* PLAYFUL_mouth_curve: src/lvgl_kawaii_face.c:1744, counter = 1..32
PLAYFUL_mouth_curve ==
  <<108, 111, 113, 114, 114, 113, 111, 108, 105, 102, 99, 97, 96, 96, 97, 99, 102, 105, 108, 111,
    113, 114, 114, 113, 111, 108, 105, 102, 99, 97, 96, 96>>

\* PLAYFUL_sparkle_phase: src/lvgl_kawaii_face.c:1746, counter = 1..32
PLAYFUL_sparkle_phase ==
  <<69, 76, 82, 87, 89, 89, 87, 83, 78, 71, 63, 68, 75, 81, 86, 89, 89, 88, 84, 79,
    72, 65, 66, 73, 80, 85, 88, 89, 89, 85, 80, 74>>

\* PLAYFUL_bounce_offset: src/lvgl_kawaii_face.c:1748, counter = 1..32
PLAYFUL_bounce_offset ==
  <<0, 1, 1, 2, 2, 2, 2, 1, 1, 0, 0, -1, -1, -2, -2, -2, -2, -1, -1, 0,
    0, 0, 1, 1, 2, 2, 2, 2, 1, 1, 0, 0>>

\* SILLY_bounce_offset: src/lvgl_kawaii_face.c:1755, counter = 1..32
SILLY_bounce_offset ==
  <<0, 1, 2, 2, 3, 3, 3, 3, 2, 2, 1, 0, 0, -1, -2, -2, -3, -3, -3, -3,
    -3, -2, -1, 0, 0, 0, 1, 2, 2, 3, 3, 3>>

\* SILLY_sparkle_phase: src/lvgl_kawaii_face.c:1756, counter = 1..32
SILLY_sparkle_phase ==
  <<48, 58, 66, 72, 74, 74, 69, 62, 53, 43, 43, 54, 63, 70, 74, 74, 72, 66, 58, 48,
    38, 49, 59, 67, 72, 74, 73, 69, 62, 53, 42, 44>>

\* EXCITED_bounce_offset: src/lvgl_kawaii_face.c:1771, counter = 1..32
EXCITED_bounce_offset ==
  <<1, 3, 3, 2, 1, 0, -2, -3, -3, -2, 0, 1, 2, 3, 3, 2, 0, -1, -2, -3,
    -2, -1, 0, 2, 3, 3, 2, 1, 0, -2, -3, -3>>

\* EXCITED_eye_openness: src/lvgl_kawaii_face.c:1775, counter = 1..32
EXCITED_eye_openness ==
  <<95, 98, 99, 98, 93, 91, 96, 99, 99, 97, 92, 93, 97, 99, 99, 95, 90, 94, 98, 99,
    98, 94, 90, 95, 99, 99, 97, 93, 92, 97, 99, 99>>

\* EXCITED_sparkle_phase: src/lvgl_kawaii_face.c:1779, counter = 1..32
EXCITED_sparkle_phase ==
  <<87, 94, 98, 99, 98, 93, 86, 81, 88, 95, 99, 99, 97, 92, 85, 82, 89, 95, 99, 99,
    97, 91, 84, 83, 90, 96, 99, 99, 96, 90, 83, 84>>

\* EXCITED_blush_intensity: src/lvgl_kawaii_face.c:1780, counter = 1..32
EXCITED_blush_intensity ==
  <<78, 82, 86, 89, 91, 93, 94, 94, 94, 93, 91, 88, 85, 81, 77, 76, 80, 83, 87, 90,
    92, 94, 94, 94, 94, 92, 90, 87, 84, 80, 76, 77>>

\* CONFUSED_bounce_offset: src/lvgl_kawaii_face.c:1789, counter = 1..32
CONFUSED_bounce_offset ==
  <<0, 0, 0, 1, 1, 1, 1, 2, 2, 2, 2, 2, 2, 2, 2, 1, 1, 1, 1, 1,
    1, 1, 1, 0, 0, 0, 0, 1, 1, 1, 1, 1>>

\* CONFUSED_left_eyebrow_angle: src/lvgl_kawaii_face.c:1794, counter = 1..32
CONFUSED_left_eyebrow_angle ==
  <<-18, -17, -16, -16, -15, -14, -14, -13, -12, -12, -11, -11, -10, -10, -9, -9, -8, -8, -8, -7,
    -7, -7, -7, -7, -7, -7, -7, -7, -7, -7, -7, -7>>

\* CONFUSED_right_eyebrow_angle: src/lvgl_kawaii_face.c:1795, counter = 1..32
CONFUSED_right_eyebrow_angle ==
  <<8, 8, 7, 7, 7, 6, 6, 6, 5, 5, 5, 5, 4, 4, 4, 4, 3, 3, 3, 3,
    3, 3, 3, 3, 3, 3, 3, 3, 3, 3, 3, 3>>

\* CONFUSED_eyebrow_height: src/lvgl_kawaii_face.c:1796, counter = 1..32
CONFUSED_eyebrow_height ==
  <<-3, -3, -3, -3, -4, -4, -4, -4, -5, -5, -5, -5, -5, -5, -6, -6, -6, -6, -6, -6,
    -6, -6, -6, -6, -6, -6, -6, -6, -6, -6, -6, -6>>

\* COOL_bounce_offset: src/lvgl_kawaii_face.c:1806, counter = 1..32
COOL_bounce_offset ==
  <<0, 0, 0, 0, 0, 0, 0, 0, 0, 0, 0, 0, 0, 0, 0, 0, 0, 0, 1, 1,
    1, 1, 1, 1, 1, 1, 1, 1, 1, 1, 1, 1>>

\* COOL_sparkle_phase: src/lvgl_kawaii_face.c:1808, counter = 1..32
COOL_sparkle_phase ==
  <<17, 19, 22, 24, 26, 28, 30, 32, 34, 36, 38, 39, 40, 42, 42, 43, 44, 44, 44, 44,
    44, 44, 43, 43, 42, 41, 39, 38, 36, 35, 33, 31>>

\* COOL_squint: src/lvgl_kawaii_face.c:1812, counter = 1..32
COOL_squint ==
  <<0, 0, 1, 1, 1, 2, 2, 3, 3, 3, 4, 4, 4, 5, 5, 5, 6, 6, 6, 6,
    6, 7, 7, 7, 7, 7, 7, 7, 7, 7, 7, 7>>

\* NEUTRAL_bounce_offset: src/lvgl_kawaii_face.c:1828, counter = 0..32
NEUTRAL_bounce_offset ==
  <<0, 0, 0, 0, 0, 0, 0, 0, 0, 0, 0, 0, 0, 0, 0, 0, 0, 0, 0, 0,
    1, 1, 1, 1, 1, 1, 1, 1, 1, 1, 1, 1, 1>>

\* DEFAULT_bounce_offset: src/lvgl_kawaii_face.c:1924, counter = 1..32
DEFAULT_bounce_offset ==
  <<0, 0, 0, 0, 0, 0, 0, 0, 0, 0, 0, 0, 0, 0, 0, 0, 0, 0, 0, 0,
    0, 0, 0, 0, 0, 0, 0, 0, 0, 0, 0, 0>>

\* NEUTRAL_gaze_right_x: src/lvgl_kawaii_face.c:1841, counter = 160..194
NEUTRAL_gaze_right_x ==
  <<0, 0, 0, 0, 0, 1, 1, 1, 1, 1, 2, 2, 2, 2, 2, 3, 3, 3, 3, 3,
    4, 4, 4, 4, 4, 5, 5, 5, 5, 5, 6, 6, 6, 6, 6>>

\* NEUTRAL_gaze_back_x: src/lvgl_kawaii_face.c:1854, counter = 240..274
NEUTRAL_gaze_back_x ==
  <<7, 6, 6, 6, 6, 6, 5, 5, 5, 5, 5, 4, 4, 4, 4, 3, 3, 3, 3, 3,
    2, 2, 2, 2, 2, 1, 1, 1, 1, 1, 0, 0, 0, 0, 0>>

\* NEUTRAL_gaze_down_x: src/lvgl_kawaii_face.c:1867, counter = 340..367
NEUTRAL_gaze_down_x ==
  <<0, 0, 0, 0, 0, 0, -1, -1, -1, -1, -1, -1, -2, -2, -2, -2, -2, -3, -3, -3,
    -3, -3, -3, -4, -4, -4, -4, -4>>

\* NEUTRAL_gaze_down_y: src/lvgl_kawaii_face.c:1868, counter = 340..367
NEUTRAL_gaze_down_y ==
  <<0, 0, 0, 0, 0, 0, 1, 1, 1, 1, 1, 1, 2, 2, 2, 2, 2, 3, 3, 3,
    3, 3, 3, 4, 4, 4, 4, 4>>

\* NEUTRAL_gaze_up_x: src/lvgl_kawaii_face.c:1880, counter = 390..419
NEUTRAL_gaze_up_x ==
  <<-5, -4, -4, -4, -4, -4, -4, -3, -3, -3, -3, -3, -3, -2, -2, -2, -2, -2, -1, -1,
    -1, -1, -1, -1, 0, 0, 0, 0, 0, 0>>

\* NEUTRAL_gaze_up_y: src/lvgl_kawaii_face.c:1881, counter = 390..419
NEUTRAL_gaze_up_y ==
  <<5, 4, 4, 4, 4, 4, 4, 3, 3, 3, 3, 3, 3, 2, 2, 2, 2, 2, 1, 1,
    1, 1, 1, 1, 0, 0, 0, 0, 0, 0>>

\* NEUTRAL_left_eyebrow_angle: src/lvgl_kawaii_face.c:1893, counter = 230..279
NEUTRAL_left_eyebrow_angle ==
  <<0, 0, 0, 0, 1, 1, 1, 2, 2, 2, 3, 3, 3, 4, 4, 4, 5, 5, 5, 6,
    6, 6, 7, 7, 7, 8, 7, 7, 7, 6, 6, 6, 5, 5, 5, 4, 4, 4, 3, 3,
    3, 2, 2, 2, 1, 1, 1, 0, 0, 0>>

\* NEUTRAL_right_eyebrow_angle: src/lvgl_kawaii_face.c:1894, counter = 230..279
NEUTRAL_right_eyebrow_angle ==
  <<0, 0, 0, 0, 0, 0, 0, 0, 0, 0, 0, 0, 0, -1, -1, -1, -1, -1, -1, -1,
    -1, -1, -1, -1, -1, -2, -1, -1, -1, -1, -1, -1, -1, -1, -1, -1, -1, -1, 0, 0,
    0, 0, 0, 0, 0, 0, 0, 0, 0, 0>>

\* NEUTRAL_eyebrow_height: src/lvgl_kawaii_face.c:1895, counter = 230..279
NEUTRAL_eyebrow_height ==
  <<0, 0, 0, 0, 0, 0, 0, -1, -1, -1, -1, -1, -1, -2, -2, -2, -2, -2, -2, -3,
    -3, -3, -3, -3, -3, -4, -3, -3, -3, -3, -3, -3, -2, -2, -2, -2, -2, -2, -1, -1,
    -1, -1, -1, -1, 0, 0, 0, 0, 0, 0>>

\* NEUTRAL_mouth_curve: src/lvgl_kawaii_face.c:1910, counter = 300..359
NEUTRAL_mouth_curve ==
  <<0, 0, 0, 1, 1, 2, 2, 3, 3, 4, 4, 5, 5, 6, 6, 7, 7, 7, 8, 8,
    9, 9, 10, 10, 11, 11, 12, 12, 13, 13, 14, 13, 13, 12, 12, 11, 11, 10, 10, 9,
    9, 8, 8, 7, 7, 7, 6, 6, 5, 5, 4, 4, 3, 3, 2, 2, 1, 1, 0, 0>>

\* COOL_glance_out_x: src/lvgl_kawaii_face.c:1498, counter = 0..59
COOL_glance_out_x ==
  <<0, 0, 0, 0, 0, 0, 0, 0, 1, 1, 1, 1, 1, 1, 1, 2, 2, 2, 2, 2,
    2, 2, 2, 3, 3, 3, 3, 3, 3, 3, 4, 4, 4, 4, 4, 4, 4, 4, 5, 5,
    5, 5, 5, 5, 5, 6, 6, 6, 6, 6, 6, 6, 6, 7, 7, 7, 7, 7, 7, 7>>

\* COOL_glance_back_x: src/lvgl_kawaii_face.c:1508, counter = 120..179
COOL_glance_back_x ==
  <<8, 7, 7, 7, 7, 7, 7, 7, 6, 6, 6, 6, 6, 6, 6, 6, 5, 5, 5, 5,
    5, 5, 5, 4, 4, 4, 4, 4, 4, 4, 4, 3, 3, 3, 3, 3, 3, 3, 2, 2,
    2, 2, 2, 2, 2, 2, 1, 1, 1, 1, 1, 1, 1, 0, 0, 0, 0, 0, 0, 0>>

(* ------------------- update_emotion_parameters ------------------------ *)
\* marks an effect field that a case of the switch does not assign
NoWrite == -1

\* the switch of update_emotion_parameters: the six output parameters and the
\* values the case assigns to face_state.blush_intensity / sparkle_phase /
\* heart_beat_phase (NoWrite where the case has no such assignment)
EmotionCase(emotion) ==
  CASE emotion = FACE_NEUTRAL ->
        [left_eye |-> 100, right_eye |-> 100, mouth |-> 0, left_brow |-> 0,
         right_brow |-> 0, brow_height |-> 0, blush_intensity |-> 0,
         sparkle_phase |-> NoWrite, heart_beat_phase |-> NoWrite]
    [] emotion = FACE_HAPPY ->
        [left_eye |-> 96, right_eye |-> 96, mouth |-> 90, left_brow |-> -4,
         right_brow |-> -4, brow_height |-> -5, blush_intensity |-> 82,
         sparkle_phase |-> 90, heart_beat_phase |-> 40]
    [] emotion = FACE_WORRIED ->
        [left_eye |-> 78, right_eye |-> 78, mouth |-> 28, left_brow |-> 18,
         right_brow |-> 18, brow_height |-> -7, blush_intensity |-> 20,
         sparkle_phase |-> 0, heart_beat_phase |-> 0]
    [] emotion = FACE_SAD ->
        [left_eye |-> 60, right_eye |-> 60, mouth |-> -75, left_brow |-> -15,
         right_brow |-> 15, brow_height |-> 3, blush_intensity |-> 0,
         sparkle_phase |-> 0, heart_beat_phase |-> 0]
    [] emotion = FACE_SURPRISED ->
        [left_eye |-> 100, right_eye |-> 100, mouth |-> 50, left_brow |-> 0,
         right_brow |-> 0, brow_height |-> -10, blush_intensity |-> 20,
         sparkle_phase |-> 60, heart_beat_phase |-> 0]
    [] emotion = FACE_ANGRY ->
        [left_eye |-> 75, right_eye |-> 75, mouth |-> -45, left_brow |-> 25,
         right_brow |-> -25, brow_height |-> 5, blush_intensity |-> 50,
         sparkle_phase |-> 0, heart_beat_phase |-> 0]
    [] emotion = FACE_SLEEPY ->
        [left_eye |-> 35, right_eye |-> 35, mouth |-> -5, left_brow |-> -5,
         right_brow |-> 5, brow_height |-> 8, blush_intensity |-> 30,
         sparkle_phase |-> 0, heart_beat_phase |-> 0]
    [] emotion = FACE_WINK ->
        [left_eye |-> 85, right_eye |-> 15, mouth |-> 70, left_brow |-> 8,
         right_brow |-> -8, brow_height |-> -2, blush_intensity |-> 60,
         sparkle_phase |-> 75, heart_beat_phase |-> 0]
    [] emotion = FACE_LOVE ->
        [left_eye |-> 95, right_eye |-> 95, mouth |-> 80, left_brow |-> 3,
         right_brow |-> 3, brow_height |-> -3, blush_intensity |-> 90,
         sparkle_phase |-> 100, heart_beat_phase |-> 100]
    [] emotion = FACE_PLAYFUL ->
        [left_eye |-> 78, right_eye |-> 80, mouth |-> 110, left_brow |-> 12,
         right_brow |-> -8, brow_height |-> 0, blush_intensity |-> 45,
         sparkle_phase |-> 85, heart_beat_phase |-> 0]
    [] emotion = FACE_SILLY ->
        [left_eye |-> 95, right_eye |-> 92, mouth |-> 75, left_brow |-> 25,
         right_brow |-> -18, brow_height |-> 4, blush_intensity |-> 55,
         sparkle_phase |-> 65, heart_beat_phase |-> 0]
    [] emotion = FACE_SMIRK ->
        [left_eye |-> 80, right_eye |-> 75, mouth |-> 40, left_brow |-> 15,
         right_brow |-> -5, brow_height |-> -5, blush_intensity |-> 25,
         sparkle_phase |-> 50, heart_beat_phase |-> 0]
    [] emotion = FACE_CRY ->
        [left_eye |-> 70, right_eye |-> 70, mouth |-> -70, left_brow |-> -15,
         right_brow |-> 15, brow_height |-> 8, blush_intensity |-> 35,
         sparkle_phase |-> 0, heart_beat_phase |-> 0]
    [] emotion = FACE_WORKING_HARD ->
        [left_eye |-> 65, right_eye |-> 65, mouth |-> 0, left_brow |-> 22,
         right_brow |-> -22, brow_height |-> 4, blush_intensity |-> 60,
         sparkle_phase |-> 0, heart_beat_phase |-> 0]
    [] emotion = FACE_EXCITED ->
        [left_eye |-> 100, right_eye |-> 100, mouth |-> 95, left_brow |-> 8,
         right_brow |-> 8, brow_height |-> -8, blush_intensity |-> 85,
         sparkle_phase |-> 100, heart_beat_phase |-> 80]
    [] emotion = FACE_CONFUSED ->
        [left_eye |-> 88, right_eye |-> 75, mouth |-> 12, left_brow |-> -18,
         right_brow |-> 8, brow_height |-> -3, blush_intensity |-> 15,
         sparkle_phase |-> 0, heart_beat_phase |-> 0]
    [] emotion = FACE_COOL ->
        [left_eye |-> 48, right_eye |-> 48, mouth |-> 35, left_brow |-> 5,
         right_brow |-> -3, brow_height |-> -4, blush_intensity |-> 10,
         sparkle_phase |-> 40, heart_beat_phase |-> 0]
    [] OTHER ->
        [left_eye |-> 100, right_eye |-> 100, mouth |-> 0, left_brow |-> 0,
         right_brow |-> 0, brow_height |-> 0, blush_intensity |-> 0,
         sparkle_phase |-> 0, heart_beat_phase |-> 0]

\* update_emotion_parameters(emotion, &left_eye, ...): the output parameters
\* are returned in .out, the face_state left behind by the side effects of
\* the call in .fs
update_emotion_parameters(s, emotion) ==
  LET assign(c) ==
        [out |-> c,
         fs  |-> [s EXCEPT
                    !.blush_intensity  = IF c.blush_intensity = NoWrite THEN @ ELSE c.blush_intensity,
                    !.sparkle_phase    = IF c.sparkle_phase = NoWrite THEN @ ELSE c.sparkle_phase,
                    !.heart_beat_phase = IF c.heart_beat_phase = NoWrite THEN @ ELSE c.heart_beat_phase]]
  IN  assign(EmotionCase(emotion))

(* ------------------------------ state ---------------------------------- *)
VARIABLES
  face_state,         \* static face_state_t face_state
  bounce_counter,     \* static uint32_t bounce_counter  (animation_timer_cb)
  pupil_counter,      \* static uint32_t pupil_counter   (animation_timer_cb)
  idle,               \* static uint32_t idle            (case FACE_NEUTRAL)
  diamond_direction,  \* static int8_t diamond_direction (FACE_SURPRISED block)
  heart_direction,    \* static int8_t heart_direction   (heartbeat decay block)
  lv_tick,            \* the value lv_tick_get() returns
  env,                \* the heap blocks, LVGL objects and timers that exist
  \* history variables, read only by the properties
  calls,              \* number of public calls made so far
  op_trace,           \* what the last operation did, in order (see the *_trace operators)
  last_op,            \* the operation that produced the current state
  conv,               \* progress of an "immediate set, smooth set, ticks" run
  blink_ticks,        \* ticks since face_trigger_blink last started a blink
  pre_blink,          \* eye openness when a manual blink started on a settled face
  retarget,           \* channel vector at a smooth re-target made in mid-transition
  last_requested,     \* emotion of the last accepted face_set_emotion call
  superseded,         \* smooth targets replaced before they became current
  drawn,              \* what the last draw call of a SpecDraw behaviour put on its canvas
  race                \* the two execution contexts of a SpecRace behaviour

prog_vars == <<face_state, bounce_counter, pupil_counter, idle,
               diamond_direction, heart_direction, lv_tick, env>>

vars == <<face_state, bounce_counter, pupil_counter, idle, diamond_direction,
          heart_direction, lv_tick, env, calls, op_trace, last_op, conv, blink_ticks,
          pre_blink, retarget, last_requested, superseded, drawn, race>>

\* the null pointer; a non-null pointer is the positive number of the block,
\* object or timer it points to
NULL == 0

\* face_state = {0}: every field zero / false / NULL
ZeroState ==
  [initialized |-> FALSE, anim_timer |-> NULL,
   left_eye_canvas |-> NULL, right_eye_canvas |-> NULL, mouth_canvas |-> NULL,
   face_container |-> NULL,
   left_eye_buf |-> NULL, right_eye_buf |-> NULL, mouth_buf |-> NULL,
   config |-> [parent |-> NULL, animation_speed |-> 0, blink_interval |-> U32(0, 0),
               auto_blink |-> FALSE],
   face_sz |-> 0, eye_cw |-> 0, mouth_cw |-> 0, mouth_ch |-> 0,
   current_emotion |-> 0, target_emotion |-> 0,
   left_eye_openness |-> 0, right_eye_openness |-> 0, mouth_curve |-> 0,
   left_eyebrow_angle |-> 0, right_eyebrow_angle |-> 0, eyebrow_height |-> 0,
   transition_progress |-> 0,
   last_blink_time |-> U32(0, 0), is_blinking |-> FALSE, blink_phase |-> 0,
   blush_intensity |-> 0, bounce_offset |-> 0, sparkle_phase |-> 0,
   heart_beat_phase |-> 0,
   pupil_offset_x |-> 0, pupil_offset_y |-> 0, tear_fall_offset |-> 0,
   diamond_mouth_phase |-> 0, sweat_drop_offset |-> 0]

(* ------------------------ inputs of the calls -------------------------- *)
\* the host's LVGL objects: the active screen lv_scr_act() and an object a
\* configuration names as parent
Screen == 100
HostObj == 101

\* <<lv_obj_get_width(obj), lv_obj_get_height(obj)>> of the host's objects
lv_obj_get_size(obj) == IF obj = Screen THEN <<135, 135>> ELSE <<320, 240>>

\* configurations passed to face_animation_init: the one the function builds
\* for config == NULL, and one with a parent object whose blink interval
\* elapses within a few ticks
Configs ==
  { [parent |-> NULL, animation_speed |-> DEFAULT_ANIM_SPEED_MS,
     blink_interval |-> U32(0, DEFAULT_BLINK_INTERVAL), auto_blink |-> TRUE],
    [parent |-> HostObj, animation_speed |-> DEFAULT_ANIM_SPEED_MS,
     blink_interval |-> U32(0, 90), auto_blink |-> TRUE] }

\* outcomes of the three FACE_MALLOC_CANVAS calls of one face_animation_init:
\* TRUE where the allocation succeeds
MallocOutcomes ==
  [left_eye_buf : BOOLEAN, right_eye_buf : BOOLEAN, mouth_buf : BOOLEAN]

\* arguments written by callers of face_set_position
PositionArgs == { <<10, 20>> }

\* arguments written by callers of face_set_emotion: every enumerator and
\* FACE_EMOTION_COUNT itself
EmotionArgs == FACE_NEUTRAL .. FACE_EMOTION_COUNT

\* integers written by callers of face_set_eye_openness / face_set_mouth_shape
EyeArgs == { <<150, -10>>, <<60, 40>>, <<0, 100>> }

MouthArgs == {-200, -40, 200}

\* value of lv_tick_get() at program start: 100 ms before the 32-bit tick
\* counter wraps, so that the wrap falls within the explored ticks
StartTicks == {U32(65535, 65536 - 100)}

(* --------------------------- public setters ---------------------------- *)
\* face_trigger_blink without the "already blinking" test: a trigger made
\* during a blink restarts it
face_trigger_blink_restart(s) ==
  IF ~s.initialized
    THEN s
    ELSE [s EXCEPT !.is_blinking = TRUE, !.blink_phase = 0]

\* face_trigger_blink(): the face_state it leaves
face_trigger_blink(s) ==
  IF ~s.initialized \/ s.is_blinking
    THEN s
    ELSE [s EXCEPT !.is_blinking = TRUE, !.blink_phase = 0]

\* face_set_emotion that forgets transition_progress = 100 on an immediate set
face_set_emotion_noprogress(s, emotion, smooth) ==
  IF ~s.initialized \/ emotion >= FACE_EMOTION_COUNT
    THEN s
    ELSE LET s1 == [s EXCEPT !.target_emotion = emotion] IN
         IF ~smooth
           THEN LET s2 == [s1 EXCEPT !.current_emotion = emotion]
                    store(r) ==
                      [r.fs EXCEPT !.left_eye_openness   = r.out.left_eye,
                                   !.right_eye_openness  = r.out.right_eye,
                                   !.mouth_curve         = r.out.mouth,
                                   !.left_eyebrow_angle  = r.out.left_brow,
                                   !.right_eyebrow_angle = r.out.right_brow,
                                   !.eyebrow_height      = r.out.brow_height]
                IN  store(update_emotion_parameters(s2, emotion))
           ELSE [s1 EXCEPT !.transition_progress = 0]

\* face_set_emotion that lets a transition in flight finish first: a smooth
\* request made during a transition does not replace the target
face_set_emotion_keep(s, emotion, smooth) ==
  IF ~s.initialized \/ emotion >= FACE_EMOTION_COUNT
    THEN s
    ELSE IF smooth /\ s.current_emotion # s.target_emotion /\ s.transition_progress < 100
      THEN s
    ELSE LET s1 == [s EXCEPT !.target_emotion = emotion] IN
         IF ~smooth
           THEN LET s2 == [s1 EXCEPT !.current_emotion = emotion,
                                     !.transition_progress = 100]
                    store(r) ==
                      [r.fs EXCEPT !.left_eye_openness   = r.out.left_eye,
                                   !.right_eye_openness  = r.out.right_eye,
                                   !.mouth_curve         = r.out.mouth,
                                   !.left_eyebrow_angle  = r.out.left_brow,
                                   !.right_eyebrow_angle = r.out.right_brow,
                                   !.eyebrow_height      = r.out.brow_height]
                IN  store(update_emotion_parameters(s2, emotion))
           ELSE [s1 EXCEPT !.transition_progress = 0]

\* face_set_emotion whose range test is off by one: it rejects only
\* identifiers above FACE_EMOTION_COUNT
face_set_emotion_offbyone(s, emotion, smooth) ==
  IF ~s.initialized \/ emotion > FACE_EMOTION_COUNT
    THEN s
    ELSE LET s1 == [s EXCEPT !.target_emotion = emotion] IN
         IF ~smooth
           THEN LET s2 == [s1 EXCEPT !.current_emotion = emotion,
                                     !.transition_progress = 100]
                    store(r) ==
                      [r.fs EXCEPT !.left_eye_openness   = r.out.left_eye,
                                   !.right_eye_openness  = r.out.right_eye,
                                   !.mouth_curve         = r.out.mouth,
                                   !.left_eyebrow_angle  = r.out.left_brow,
                                   !.right_eyebrow_angle = r.out.right_brow,
                                   !.eyebrow_height      = r.out.brow_height]
                IN  store(update_emotion_parameters(s2, emotion))
           ELSE [s1 EXCEPT !.transition_progress = 0]

\* face_set_emotion(emotion, smooth): the face_state it leaves
face_set_emotion(s, emotion, smooth) ==
  IF ~s.initialized \/ emotion >= FACE_EMOTION_COUNT
    THEN s
    ELSE LET s1 == [s EXCEPT !.target_emotion = emotion] IN
         IF ~smooth
           THEN LET s2 == [s1 EXCEPT !.current_emotion = emotion,
                                     !.transition_progress = 100]
                    store(r) ==
                      [r.fs EXCEPT !.left_eye_openness   = r.out.left_eye,
                                   !.right_eye_openness  = r.out.right_eye,
                                   !.mouth_curve         = r.out.mouth,
                                   !.left_eyebrow_angle  = r.out.left_brow,
                                   !.right_eyebrow_angle = r.out.right_brow,
                                   !.eyebrow_height      = r.out.brow_height]
                IN  store(update_emotion_parameters(s2, emotion))
           ELSE [s1 EXCEPT !.transition_progress = 0]

\* face_set_eye_openness(uint8_t left_eye, uint8_t right_eye): the arguments
\* the caller writes are converted to uint8_t by the call
face_set_eye_openness(s, left_arg, right_arg) ==
  LET left_eye  == ToUint8(left_arg)
      right_eye == ToUint8(right_arg)
  IN  IF ~s.initialized
        THEN s
        ELSE [s EXCEPT !.left_eye_openness  = IF left_eye > 100 THEN 100 ELSE left_eye,
                       !.right_eye_openness = IF right_eye > 100 THEN 100 ELSE right_eye]

\* face_set_mouth_shape(int8_t value): the argument the caller writes is
\* converted to int8_t by the call
face_set_mouth_shape(s, value_arg) ==
  LET value == ToInt8(value_arg)
      v1    == IF value > 100 THEN 100 ELSE value
      v2    == IF v1 < -100 THEN -100 ELSE v1
  IN  IF ~s.initialized THEN s ELSE [s EXCEPT !.mouth_curve = v2]

\* face_set_auto_blink(enable)
face_set_auto_blink(s, enable) ==
  [s EXCEPT !.config = [@ EXCEPT !.auto_blink = enable]]

(* ------------------- heap, LVGL objects and timers --------------------- *)
\* env.next: the number the next created block / object / timer gets;
\* env.live: the ones that exist; env.twice: the ones freed or deleted when
\* they no longer existed; env.tree: <<parent, child>> for the LVGL objects;
\* env.pos: the position last given to an object by lv_obj_set_pos
EmptyEnv == [next |-> 1, live |-> {}, twice |-> {}, tree |-> {}, pos |-> <<>>]

\* free(p) / lv_timer_del(p) of a non-null p
release(e, p) ==
  IF p \in e.live THEN [e EXCEPT !.live = @ \ {p}]
                  ELSE [e EXCEPT !.twice = @ \cup {p}]

\* lv_obj_del(obj) of a non-null obj: deletes the object and its children
lv_obj_del(e, obj) ==
  IF obj \in e.live
    THEN [e EXCEPT !.live = @ \ ({obj} \cup {c \in @ : <<obj, c>> \in e.tree})]
    ELSE [e EXCEPT !.twice = @ \cup {obj}]

\* "if (p) free(p)" and "if (t) lv_timer_del(t)" of face_animation_deinit
if_release(p, e) == IF p # NULL THEN release(e, p) ELSE e

\* "if (obj) lv_obj_del(obj)" of face_animation_deinit
if_lv_obj_del(obj, e) == IF obj # NULL THEN lv_obj_del(e, obj) ELSE e

ESP_OK == 0
ESP_ERR_NO_MEM == 257

(* ------------------------------ geometry ------------------------------- *)
ToUint16(x) == x % 65536

\* the float literals 0.45f and 0.38f: their 24-bit significands, the value
\* of the literal being the significand times 2^-25
F045 == 15099494
F038 == 12750684

\* number of bits of a, for 0 <= a < 2^29
BitLen(a) == CHOOSE b \in 0..29 : a < 2 ^ b /\ (b = 0 \/ a >= 2 ^ (b - 1))

\* (uint16_t)(n * f) for a uint16_t n and the float f = m * 2^-25: the exact
\* product n * m = A * 2^12 + B is rounded to 24 significant bits (to
\* nearest, a tie to the even significand) and the fraction is cut off
FloatMulTrunc(n, m) ==
  LET A == n * (m \div 4096) + (n * (m % 4096)) \div 4096
      B == (n * (m % 4096)) % 4096
      \* the product is (A \div 2^13) + R * 2^-25 with 0 <= R < 2^25
      R == (A % 8192) * 4096 + B
      \* d low bits of the exact product do not fit the significand
      d == BitLen(A) - 12
  IN  IF d >= 1 /\ R > 0 /\ 33554432 - R <= 2 ^ (d - 1)
        THEN A \div 8192 + 1
        ELSE A \div 8192

\* face_sz, eye_cw, mouth_cw, mouth_ch for a parent of parent_w x parent_h
\* that takes the larger side of the parent
Geometry_max(parent_w, parent_h) ==
  LET face_sz == ToUint16(IF parent_w > parent_h THEN parent_w ELSE parent_h)
  IN  [face_sz  |-> face_sz,
       eye_cw   |-> ToUint16(FloatMulTrunc(face_sz, F045)),
       mouth_cw |-> ToUint16(FloatMulTrunc(face_sz, F045)),
       mouth_ch |-> ToUint16(FloatMulTrunc(face_sz, F038))]

\* face_sz, eye_cw, mouth_cw, mouth_ch for a parent of parent_w x parent_h
Geometry(parent_w, parent_h) ==
  LET face_sz == ToUint16(IF parent_w < parent_h THEN parent_w ELSE parent_h)
  IN  [face_sz  |-> face_sz,
       eye_cw   |-> ToUint16(FloatMulTrunc(face_sz, F045)),
       mouth_cw |-> ToUint16(FloatMulTrunc(face_sz, F045)),
       mouth_ch |-> ToUint16(FloatMulTrunc(face_sz, F038))]

\* face_animation_init past its "already initialized" test: .fs is the
\* face_state it leaves, .env the environment and .ret the value returned;
\* ok tells which of the three allocations succeed. The container is object
\* n, the buffers are blocks n+1..n+3, the canvases objects n+4..n+6 and the
\* timer is n+7.
face_animation_init_run(s, e, config, now, ok) ==
      LET n  == e.next
          lb == IF ok.left_eye_buf THEN n + 1 ELSE NULL
          rb == IF ok.right_eye_buf THEN n + 2 ELSE NULL
          mb == IF ok.mouth_buf THEN n + 3 ELSE NULL
          parent_obj == IF config.parent # NULL THEN config.parent ELSE Screen
          g  == Geometry(lv_obj_get_size(parent_obj)[1], lv_obj_get_size(parent_obj)[2])
          s1 == [s EXCEPT !.config = config,
                          !.face_sz = g.face_sz,
                          !.eye_cw = g.eye_cw,
                          !.mouth_cw = g.mouth_cw,
                          !.mouth_ch = g.mouth_ch,
                          !.face_container = n,
                          !.left_eye_buf = lb,
                          !.right_eye_buf = rb,
                          !.mouth_buf = mb]
          e1 == [e EXCEPT !.next = n + 8,
                          !.live = @ \cup ({n, lb, rb, mb} \ {NULL})]
      IN  IF lb = NULL \/ rb = NULL \/ mb = NULL
            THEN [fs |-> s1, env |-> e1, ret |-> ESP_ERR_NO_MEM]
            ELSE [fs |-> [s1 EXCEPT !.left_eye_canvas = n + 4,
                                    !.right_eye_canvas = n + 5,
                                    !.mouth_canvas = n + 6,
                                    !.current_emotion = FACE_NEUTRAL,
                                    !.target_emotion = FACE_NEUTRAL,
                                    !.left_eye_openness = 100,
                                    !.right_eye_openness = 100,
                                    !.mouth_curve = 0,
                                    !.left_eyebrow_angle = 0,
                                    !.right_eyebrow_angle = 0,
                                    !.eyebrow_height = 0,
                                    !.transition_progress = 100,
                                    !.last_blink_time = now,
                                    !.blush_intensity = 0,
                                    !.bounce_offset = 0,
                                    !.sparkle_phase = 0,
                                    !.heart_beat_phase = 0,
                                    !.anim_timer = n + 7,
                                    !.initialized = TRUE],
                  env |-> [e1 EXCEPT !.live = @ \cup {n + 4, n + 5, n + 6, n + 7},
                                     !.tree = @ \cup {<<n, n + 4>>, <<n, n + 5>>, <<n, n + 6>>}],
                  ret |-> ESP_OK]

\* face_animation_init without the "already initialized" test
face_animation_init_again(s, e, config, now, ok) ==
  face_animation_init_run(s, e, config, now, ok)

\* face_animation_init(config)
face_animation_init(s, e, config, now, ok) ==
  IF s.initialized
    THEN [fs |-> s, env |-> e, ret |-> ESP_OK]
    ELSE face_animation_init_run(s, e, config, now, ok)

\* the environment face_animation_deinit leaves: the timer, the three
\* canvases and the container deleted, then the three buffers freed
face_animation_deinit_release(s, e) ==
  if_release(s.mouth_buf,
  if_release(s.right_eye_buf,
  if_release(s.left_eye_buf,
  if_lv_obj_del(s.face_container,
  if_lv_obj_del(s.mouth_canvas,
  if_lv_obj_del(s.right_eye_canvas,
  if_lv_obj_del(s.left_eye_canvas,
  if_release(s.anim_timer, e))))))))

\* face_animation_deinit without the final memset: only anim_timer is cleared
face_animation_deinit_nomemset(s, e) ==
  IF ~s.initialized
    THEN [fs |-> s, env |-> e]
    ELSE [fs  |-> [s EXCEPT !.anim_timer = NULL],
          env |-> face_animation_deinit_release(s, e)]

\* face_animation_deinit that clears the flag and the pointers instead of
\* the whole face_state
face_animation_deinit_partial(s, e) ==
  IF ~s.initialized
    THEN [fs |-> s, env |-> e]
    ELSE [fs  |-> [s EXCEPT !.initialized = FALSE, !.anim_timer = NULL,
                            !.left_eye_canvas = NULL, !.right_eye_canvas = NULL,
                            !.mouth_canvas = NULL, !.face_container = NULL,
                            !.left_eye_buf = NULL, !.right_eye_buf = NULL,
                            !.mouth_buf = NULL],
          env |-> face_animation_deinit_release(s, e)]

\* face_animation_deinit(): releases everything, then memset(&face_state, 0, ...)
face_animation_deinit(s, e) ==
  IF ~s.initialized
    THEN [fs |-> s, env |-> e]
    ELSE [fs  |-> ZeroState,
          env |-> face_animation_deinit_release(s, e)]

\* face_set_position(x, y): lv_obj_set_pos on the container
face_set_position(s, e, x, y) ==
  IF ~s.initialized
    THEN e
    ELSE [e EXCEPT !.pos = <<s.face_container, x, y>>]

(* ------------------------ animation_timer_cb --------------------------- *)
\* BlinkStep that advances blink_phase by 25 a tick
BlinkStep_step25(s, current_time) ==
  LET p1   == ToUint8(s.blink_phase + 25)
      done == p1 >= 100
      p2   == IF done THEN 0 ELSE p1
      blink_openness == IF p2 < 50 THEN ToUint8(100 - (p2 * 2))
                                   ELSE ToUint8((p2 - 50) * 2)
  IN  [s EXCEPT !.blink_phase = p2,
                !.is_blinking = IF done THEN FALSE ELSE @,
                !.last_blink_time = IF done THEN current_time ELSE @,
                !.left_eye_openness = blink_openness,
                !.right_eye_openness = blink_openness]

\* BlinkStep whose opening half forgets to subtract 50 from blink_phase
BlinkStep_noshift(s, current_time) ==
  LET p1   == ToUint8(s.blink_phase + 20)
      done == p1 >= 100
      p2   == IF done THEN 0 ELSE p1
      blink_openness == IF p2 < 50 THEN ToUint8(100 - (p2 * 2))
                                   ELSE ToUint8(p2 * 2)
  IN  [s EXCEPT !.blink_phase = p2,
                !.is_blinking = IF done THEN FALSE ELSE @,
                !.last_blink_time = IF done THEN current_time ELSE @,
                !.left_eye_openness = blink_openness,
                !.right_eye_openness = blink_openness]

\* the is_blinking branch: advance the blink and override both eyes
BlinkStep(s, current_time) ==
  LET p1   == ToUint8(s.blink_phase + 20)
      done == p1 >= 100
      p2   == IF done THEN 0 ELSE p1
      blink_openness == IF p2 < 50 THEN ToUint8(100 - (p2 * 2))
                                   ELSE ToUint8((p2 - 50) * 2)
  IN  [s EXCEPT !.blink_phase = p2,
                !.is_blinking = IF done THEN FALSE ELSE @,
                !.last_blink_time = IF done THEN current_time ELSE @,
                !.left_eye_openness = blink_openness,
                !.right_eye_openness = blink_openness]

\* AutoBlinkDue that fires as soon as the elapsed time equals blink_interval
AutoBlinkDue_ge(s, current_time) ==
  s.config.auto_blink /\
  ~U32Gt(s.config.blink_interval, U32Sub(current_time, s.last_blink_time))

\* the condition of the auto-blink branch
AutoBlinkDue(s, current_time) ==
  s.config.auto_blink /\
  U32Gt(U32Sub(current_time, s.last_blink_time), s.config.blink_interval)

\* Interpolate whose division rounds toward minus infinity
Interpolate_floor(current, target, progress) ==
  current + ((target - current) * progress) \div 100

\* current + ((target - current) * transition_progress) / 100 in int arithmetic
Interpolate(current, target, progress) ==
  current + CDiv((target - current) * progress, 100)

\* TransitionStep that advances transition_progress by 15 a tick
TransitionStep_step15(s) ==
  LET p1   == ToUint8(s.transition_progress + 15)
      done == p1 >= 100
      s1   == [s EXCEPT !.transition_progress = IF done THEN 100 ELSE p1,
                        !.current_emotion = IF done THEN s.target_emotion ELSE @]
      p    == s1.transition_progress
      \* t and c are the results of the lookups of target_emotion and of
      \* current_emotion, made in this order
      blend(t, c) ==
        [c.fs EXCEPT
           !.left_eye_openness   = ToUint8(Interpolate(c.out.left_eye, t.out.left_eye, p)),
           !.right_eye_openness  = ToUint8(Interpolate(c.out.right_eye, t.out.right_eye, p)),
           !.mouth_curve         = ToInt8(Interpolate(c.out.mouth, t.out.mouth, p)),
           !.left_eyebrow_angle  = ToInt8(Interpolate(c.out.left_brow, t.out.left_brow, p)),
           !.right_eyebrow_angle = ToInt8(Interpolate(c.out.right_brow, t.out.right_brow, p)),
           !.eyebrow_height      = ToInt8(Interpolate(c.out.brow_height, t.out.brow_height, p))]
      second(t) == blend(t, update_emotion_parameters(t.fs, s1.current_emotion))
  IN  second(update_emotion_parameters(s1, s1.target_emotion))

\* TransitionStep that completes only when transition_progress exceeds 100
TransitionStep_strict(s) ==
  LET p1   == ToUint8(s.transition_progress + 10)
      done == p1 > 100
      s1   == [s EXCEPT !.transition_progress = IF done THEN 100 ELSE p1,
                        !.current_emotion = IF done THEN s.target_emotion ELSE @]
      p    == s1.transition_progress
      \* t and c are the results of the lookups of target_emotion and of
      \* current_emotion, made in this order
      blend(t, c) ==
        [c.fs EXCEPT
           !.left_eye_openness   = ToUint8(Interpolate(c.out.left_eye, t.out.left_eye, p)),
           !.right_eye_openness  = ToUint8(Interpolate(c.out.right_eye, t.out.right_eye, p)),
           !.mouth_curve         = ToInt8(Interpolate(c.out.mouth, t.out.mouth, p)),
           !.left_eyebrow_angle  = ToInt8(Interpolate(c.out.left_brow, t.out.left_brow, p)),
           !.right_eyebrow_angle = ToInt8(Interpolate(c.out.right_brow, t.out.right_brow, p)),
           !.eyebrow_height      = ToInt8(Interpolate(c.out.brow_height, t.out.brow_height, p))]
      second(t) == blend(t, update_emotion_parameters(t.fs, s1.current_emotion))
  IN  second(update_emotion_parameters(s1, s1.target_emotion))

\* the transition branch: advance transition_progress and interpolate the six
\* base channels between the table values of current_emotion and target_emotion
TransitionStep(s) ==
  LET p1   == ToUint8(s.transition_progress + 10)
      done == p1 >= 100
      s1   == [s EXCEPT !.transition_progress = IF done THEN 100 ELSE p1,
                        !.current_emotion = IF done THEN s.target_emotion ELSE @]
      p    == s1.transition_progress
      \* t and c are the results of the lookups of target_emotion and of
      \* current_emotion, made in this order
      blend(t, c) ==
        [c.fs EXCEPT
           !.left_eye_openness   = ToUint8(Interpolate(c.out.left_eye, t.out.left_eye, p)),
           !.right_eye_openness  = ToUint8(Interpolate(c.out.right_eye, t.out.right_eye, p)),
           !.mouth_curve         = ToInt8(Interpolate(c.out.mouth, t.out.mouth, p)),
           !.left_eyebrow_angle  = ToInt8(Interpolate(c.out.left_brow, t.out.left_brow, p)),
           !.right_eyebrow_angle = ToInt8(Interpolate(c.out.right_brow, t.out.right_brow, p)),
           !.eyebrow_height      = ToInt8(Interpolate(c.out.brow_height, t.out.brow_height, p))]
      \* the two lookups as a pair <<t, c>>, each of them made once
      lookups ==
        { <<t, update_emotion_parameters(t.fs, s1.current_emotion)>> :
            t \in {update_emotion_parameters(s1, s1.target_emotion)} }
  IN  CHOOSE r \in { blend(x[1], x[2]) : x \in lookups } : TRUE

\* the condition of the transition branch
TransitionDue(s) ==
  s.current_emotion # s.target_emotion /\ s.transition_progress < 100

\* the if / else-if chain at the head of the callback
BlinkOrTransition(s, current_time) ==
  IF s.is_blinking THEN BlinkStep(s, current_time)
  ELSE IF AutoBlinkDue(s, current_time) THEN face_trigger_blink(s)
  ELSE IF TransitionDue(s) THEN TransitionStep(s)
  ELSE s

\* switch (current_emotion) that sets pupil_offset_x / pupil_offset_y
PupilStep(s, pc) ==
  LET e == s.current_emotion
      xy(x, y) == [s EXCEPT !.pupil_offset_x = x, !.pupil_offset_y = y]
      cp == pc % 240
  IN  CASE e = FACE_HAPPY ->
             xy(HAPPY_pupil_offset_x[(pc % 80) + 1], HAPPY_pupil_offset_y[(pc % 80) + 1])
        [] e = FACE_WORRIED ->
             xy(WORRIED_pupil_offset_x[pc], WORRIED_pupil_offset_y[pc])
        [] e \in {FACE_PLAYFUL, FACE_LOVE} ->
             IF pc % 100 < 50
               THEN xy(LOVE_pupil_offset_x[(pc % 100) + 1], LOVE_pupil_offset_y[(pc % 100) + 1])
               ELSE xy(ToInt8(CDiv(s.pupil_offset_x * 4, 5)), ToInt8(CDiv(s.pupil_offset_y * 4, 5)))
        [] e = FACE_SURPRISED -> xy(0, -8)
        [] e = FACE_SLEEPY -> xy(0, 5)
        [] e = FACE_SILLY -> xy(IF (pc \div 5) % 2 # 0 THEN 10 ELSE -10, 0)
        [] e \in {FACE_WINK, FACE_SMIRK} -> xy(5, 0)
        [] e = FACE_WORKING_HARD -> xy(0, 4)
        [] e = FACE_EXCITED ->
             xy(IF (pc \div 3) % 2 # 0 THEN 9 ELSE -9, IF (pc \div 5) % 2 # 0 THEN 7 ELSE -7)
        [] e = FACE_CONFUSED ->
             xy(CONFUSED_pupil_offset_x[pc], CONFUSED_pupil_offset_y[pc])
        [] e = FACE_COOL ->
             IF cp < 60 THEN xy(COOL_glance_out_x[cp + 1], 0)
             ELSE IF cp < 120 THEN xy(8, 0)
             ELSE IF cp < 180 THEN xy(COOL_glance_back_x[cp - 120 + 1], 0)
             ELSE xy(0, 0)
        [] OTHER -> xy(0, 0)

\* TearStep that restarts as soon as the offset reaches 80
TearStep_ge(s) ==
  IF s.current_emotion \in {FACE_SAD, FACE_CRY}
    THEN LET t == ToUint8(s.tear_fall_offset + 2)
         IN  [s EXCEPT !.tear_fall_offset = IF t >= 80 THEN 0 ELSE t]
    ELSE [s EXCEPT !.tear_fall_offset = 0]

\* tear_fall_offset: ramps by 2 for FACE_SAD / FACE_CRY, else 0
TearStep(s) ==
  IF s.current_emotion \in {FACE_SAD, FACE_CRY}
    THEN LET t == ToUint8(s.tear_fall_offset + 2)
         IN  [s EXCEPT !.tear_fall_offset = IF t > 80 THEN 0 ELSE t]
    ELSE [s EXCEPT !.tear_fall_offset = 0]

\* sweat_drop_offset: ramps by 3 (FACE_WORKING_HARD) or 1 (FACE_SLEEPY), else 0
SweatStep(s) ==
  IF s.current_emotion = FACE_WORKING_HARD
    THEN LET w == ToUint8(s.sweat_drop_offset + 3)
         IN  [s EXCEPT !.sweat_drop_offset = IF w > 100 THEN 0 ELSE w]
  ELSE IF s.current_emotion = FACE_SLEEPY
    THEN LET w == ToUint8(s.sweat_drop_offset + 1)
         IN  [s EXCEPT !.sweat_drop_offset = IF w > 100 THEN 0 ELSE w]
  ELSE [s EXCEPT !.sweat_drop_offset = 0]

\* diamond_mouth_phase and the static diamond_direction
DiamondStep(s, dir) ==
  IF s.current_emotion = FACE_SURPRISED
    THEN LET d == ToUint8(s.diamond_mouth_phase + dir * 8)
         IN  IF d >= 100 THEN [fs |-> [s EXCEPT !.diamond_mouth_phase = 100], dir |-> -1]
             ELSE IF d <= 50 THEN [fs |-> [s EXCEPT !.diamond_mouth_phase = 50], dir |-> 1]
             ELSE [fs |-> [s EXCEPT !.diamond_mouth_phase = d], dir |-> dir]
    ELSE [fs |-> [s EXCEPT !.diamond_mouth_phase = 0], dir |-> dir]

\* the idle counter after "if (transition_done) idle++" of case FACE_NEUTRAL
IdleNext(s, idl) ==
  IF s.current_emotion = FACE_NEUTRAL /\ s.transition_progress = 100
    THEN idl + 1
    ELSE idl

\* case FACE_NEUTRAL of the idle switch; idl is the idle counter after its increment
NeutralIdle(s, idl) ==
  LET transition_done == s.transition_progress = 100
      gp == idl % 420
      bp == idl % 280
      sp == idl % 360
      px == IF gp < 160 THEN 0
            ELSE IF gp < 195 THEN NEUTRAL_gaze_right_x[gp - 160 + 1]
            ELSE IF gp < 240 THEN 7
            ELSE IF gp < 275 THEN NEUTRAL_gaze_back_x[gp - 240 + 1]
            ELSE IF gp < 340 THEN 0
            ELSE IF gp < 368 THEN NEUTRAL_gaze_down_x[gp - 340 + 1]
            ELSE IF gp < 390 THEN -5
            ELSE NEUTRAL_gaze_up_x[gp - 390 + 1]
      py == IF gp < 340 THEN 0
            ELSE IF gp < 368 THEN NEUTRAL_gaze_down_y[gp - 340 + 1]
            ELSE IF gp < 390 THEN 5
            ELSE NEUTRAL_gaze_up_y[gp - 390 + 1]
      raised == bp >= 230 /\ bp < 280
      smile  == sp >= 300 /\ sp < 360
  IN  [s EXCEPT
         !.bounce_offset = NEUTRAL_bounce_offset[idl + 1],
         !.pupil_offset_x = px,
         !.pupil_offset_y = py,
         !.left_eyebrow_angle  = IF ~transition_done THEN @
                                 ELSE IF raised THEN NEUTRAL_left_eyebrow_angle[bp - 230 + 1] ELSE 0,
         !.right_eyebrow_angle = IF ~transition_done THEN @
                                 ELSE IF raised THEN NEUTRAL_right_eyebrow_angle[bp - 230 + 1] ELSE 0,
         !.eyebrow_height      = IF ~transition_done THEN @
                                 ELSE IF raised THEN NEUTRAL_eyebrow_height[bp - 230 + 1] ELSE 0,
         !.mouth_curve         = IF ~transition_done THEN @
                                 ELSE IF smile THEN NEUTRAL_mouth_curve[sp - 300 + 1] ELSE 0]

\* switch (current_emotion) of the idle motion: bounce, eye / mouth / brow
\* overrides gated by transition_done (and !is_blinking for the eyes), effect phases
IdleStep(s, bc, idl) ==
  LET e == s.current_emotion
      transition_done == s.transition_progress = 100
      eyes_free == transition_done /\ ~s.is_blinking
      eyes(t, v) == [t EXCEPT !.left_eye_openness = IF eyes_free THEN v ELSE @,
                              !.right_eye_openness = IF eyes_free THEN v ELSE @]
      sleepy_open == 35 - SLEEPY_droop[bc]
      cry_open    == 65 - CRY_squeeze[bc]
      squint      == COOL_squint[bc]
  IN  CASE e = FACE_HAPPY ->
             [eyes(s, HAPPY_eye_openness[bc]) EXCEPT
                !.bounce_offset = HAPPY_bounce_offset[bc],
                !.sparkle_phase = HAPPY_sparkle_phase[bc],
                !.blush_intensity = HAPPY_blush_intensity[bc],
                !.mouth_curve = IF transition_done THEN HAPPY_mouth_curve[bc] ELSE @]
        [] e = FACE_WORRIED ->
             [s EXCEPT
                !.bounce_offset = WORRIED_bounce_offset[bc],
                !.left_eyebrow_angle = IF transition_done THEN WORRIED_eyebrow_angle[bc] ELSE @,
                !.right_eyebrow_angle = IF transition_done THEN WORRIED_eyebrow_angle[bc] ELSE @,
                !.eyebrow_height = IF transition_done THEN WORRIED_eyebrow_height[bc] ELSE @,
                !.mouth_curve = IF transition_done THEN WORRIED_mouth_curve[bc] ELSE @]
        [] e = FACE_LOVE ->
             [eyes(s, LOVE_eye_openness[bc]) EXCEPT
                !.bounce_offset = LOVE_bounce_offset[bc],
                !.sparkle_phase = LOVE_sparkle_phase[bc],
                !.heart_beat_phase = LOVE_heart_beat_phase[bc],
                !.blush_intensity = LOVE_blush_intensity[bc]]
        [] e = FACE_ANGRY ->
             [s EXCEPT
                !.blush_intensity = ANGRY_blush_intensity[bc],
                !.mouth_curve = IF transition_done THEN ANGRY_mouth_curve[bc] ELSE @,
                !.left_eyebrow_angle = IF transition_done THEN ANGRY_left_eyebrow_angle[bc] ELSE @,
                !.right_eyebrow_angle = IF transition_done THEN ANGRY_right_eyebrow_angle[bc] ELSE @,
                !.bounce_offset = IF bc % 8 < 2 THEN 1 ELSE 0]
        [] e = FACE_SLEEPY ->
             [eyes(s, ToUint8(IF sleepy_open < 10 THEN 10 ELSE sleepy_open)) EXCEPT
                !.bounce_offset = SLEEPY_bounce_offset[bc]]
        [] e = FACE_SURPRISED ->
             [eyes(s, SURPRISED_eye_openness[bc]) EXCEPT
                !.bounce_offset = ToInt8((bc % 4) - 2)]
        [] e = FACE_CRY ->
             [eyes(s, ToUint8(IF cry_open < 30 THEN 30 ELSE cry_open)) EXCEPT
                !.bounce_offset = CRY_bounce_offset[bc],
                !.blush_intensity = CRY_blush_intensity[bc]]
        [] e = FACE_SAD ->
             [s EXCEPT !.bounce_offset = SAD_bounce_offset[bc],
                       !.pupil_offset_y = SAD_pupil_offset_y[bc]]
        [] e = FACE_WINK ->
             [s EXCEPT !.sparkle_phase = WINK_sparkle_phase[bc],
                       !.bounce_offset = WINK_bounce_offset[bc]]
        [] e = FACE_SMIRK ->
             [s EXCEPT
                !.left_eyebrow_angle = IF transition_done THEN SMIRK_left_eyebrow_angle[bc] ELSE @,
                !.eyebrow_height = IF transition_done THEN SMIRK_eyebrow_height[bc] ELSE @,
                !.pupil_offset_x = SMIRK_pupil_offset_x[bc],
                !.sparkle_phase = SMIRK_sparkle_phase[bc],
                !.bounce_offset = SMIRK_bounce_offset[bc]]
        [] e = FACE_PLAYFUL ->
             [s EXCEPT
                !.mouth_curve = IF transition_done THEN PLAYFUL_mouth_curve[bc] ELSE @,
                !.sparkle_phase = PLAYFUL_sparkle_phase[bc],
                !.bounce_offset = PLAYFUL_bounce_offset[bc]]
        [] e = FACE_SILLY ->
             [s EXCEPT !.bounce_offset = SILLY_bounce_offset[bc],
                       !.sparkle_phase = SILLY_sparkle_phase[bc]]
        [] e = FACE_WORKING_HARD ->
             [s EXCEPT !.bounce_offset = IF bc % 6 < 3 THEN 1 ELSE -1]
        [] e = FACE_EXCITED ->
             [eyes(s, EXCITED_eye_openness[bc]) EXCEPT
                !.bounce_offset = EXCITED_bounce_offset[bc],
                !.sparkle_phase = EXCITED_sparkle_phase[bc],
                !.blush_intensity = EXCITED_blush_intensity[bc]]
        [] e = FACE_CONFUSED ->
             [s EXCEPT
                !.bounce_offset = CONFUSED_bounce_offset[bc],
                !.left_eyebrow_angle = IF transition_done THEN CONFUSED_left_eyebrow_angle[bc] ELSE @,
                !.right_eyebrow_angle = IF transition_done THEN CONFUSED_right_eyebrow_angle[bc] ELSE @,
                !.eyebrow_height = IF transition_done THEN CONFUSED_eyebrow_height[bc] ELSE @]
        [] e = FACE_COOL ->
             [eyes(s, ToUint8(48 - (IF squint > 38 THEN 38 ELSE squint))) EXCEPT
                !.bounce_offset = COOL_bounce_offset[bc],
                !.sparkle_phase = COOL_sparkle_phase[bc]]
        [] e = FACE_NEUTRAL -> NeutralIdle(s, idl)
        [] OTHER -> [s EXCEPT !.bounce_offset = DEFAULT_bounce_offset[bc]]

\* emotions whose sparkle_phase is faded out by the callback
SparkleFading ==
  {FACE_NEUTRAL, FACE_ANGRY, FACE_SAD, FACE_CRY, FACE_SLEEPY, FACE_SURPRISED,
   FACE_WORKING_HARD, FACE_CONFUSED, FACE_WORRIED}

\* sparkle_phase fade: minus 2 per tick, floored at 0
SparkleStep(s) ==
  IF s.current_emotion \in SparkleFading /\ s.sparkle_phase > 0
    THEN [s EXCEPT !.sparkle_phase = IF @ >= 2 THEN @ - 2 ELSE 0]
    ELSE s

\* heart_beat_phase outside FACE_LOVE and the static heart_direction
HeartStep(s, dir) ==
  IF s.current_emotion # FACE_LOVE /\ s.heart_beat_phase > 0
    THEN LET h == ToUint8(s.heart_beat_phase + dir * 5)
         IN  IF h <= 0 THEN [fs |-> [s EXCEPT !.heart_beat_phase = 0], dir |-> 1]
             ELSE IF h >= 100 THEN [fs |-> [s EXCEPT !.heart_beat_phase = 100], dir |-> -1]
             ELSE [fs |-> [s EXCEPT !.heart_beat_phase = h], dir |-> dir]
    ELSE [fs |-> s, dir |-> dir]

\* the "needs_redraw = true" of the pupil switch
PupilRedraw(e, pc) ==
  CASE e \in {FACE_HAPPY, FACE_CONFUSED} -> pc % 2 = 0
    [] e = FACE_WORRIED -> pc % 4 = 0
    [] e \in {FACE_PLAYFUL, FACE_LOVE} ->
         IF pc % 100 < 50 THEN pc % 2 = 0 ELSE pc % 3 = 0
    [] e = FACE_SILLY -> pc % 5 = 0
    [] e \in {FACE_EXCITED, FACE_COOL} -> pc % 3 = 0
    [] OTHER -> FALSE

\* the "needs_redraw = true" of the idle switch; idl is the idle counter
\* after its increment
IdleRedraw(e, bc, idl) ==
  CASE e \in {FACE_HAPPY, FACE_LOVE, FACE_ANGRY, FACE_SURPRISED, FACE_CRY,
              FACE_PLAYFUL, FACE_SILLY, FACE_EXCITED, FACE_CONFUSED} -> bc % 2 = 0
    [] e \in {FACE_WORRIED, FACE_SLEEPY, FACE_WINK, FACE_SMIRK, FACE_COOL} -> bc % 3 = 0
    [] e = FACE_SAD -> bc % 4 = 0
    [] e = FACE_WORKING_HARD -> bc % 6 = 0
    [] e = FACE_NEUTRAL -> idl % 2 = 0
    [] OTHER -> bc % 10 = 0

\* the value of needs_redraw at the end of animation_timer_cb: s is the
\* face_state the callback starts from, t the one the idle switch leaves
needs_redraw(s, current_time, bc, pc, idl, t) ==
  \/ s.is_blinking
  \/ ~AutoBlinkDue(s, current_time) /\ TransitionDue(s)
  \/ PupilRedraw(t.current_emotion, pc)
  \/ t.current_emotion \in {FACE_SAD, FACE_CRY}
  \/ t.current_emotion \in {FACE_WORKING_HARD, FACE_SLEEPY}
  \/ t.current_emotion = FACE_SURPRISED
  \/ IdleRedraw(t.current_emotion, bc, idl)
  \/ t.current_emotion \in SparkleFading /\ t.sparkle_phase > 0
  \/ t.transition_progress < 100 /\ t.blush_intensity > 0

\* animation_timer_cb(timer) on an initialized face: bc, pc are the two
\* counters after their increment; the result holds the new face_state, the
\* new values of the statics idle, diamond_direction, heart_direction, and
\* whether the callback redraws.  animation_timer_cb_rest is the callback
\* from the counters on (line 1396): s is the face_state the if / else-if
\* chain found and c the one it left.
animation_timer_cb_rest(s, c, current_time, bc, pc, idl, ddir, hdir) ==
  LET result(h, i, d, redraw) ==
        [fs |-> h.fs, idle |-> i, diamond_direction |-> d, heart_direction |-> h.dir,
         needs_redraw |-> redraw]
      \* the sparkle fade and the heartbeat decay; t is IdleStep's result
      fade_on(t, i, d) ==
        result(HeartStep(SparkleStep(t), hdir), i, d,
               needs_redraw(s, current_time, bc, pc, i, t))
      \* the idle switch with the counter i; d is DiamondStep's result
      idle_with(d, i) == fade_on(IdleStep(d.fs, bc, i), i, d.dir)
      idle_on(d) == idle_with(d, IdleNext(d.fs, idl))
  IN  idle_on(DiamondStep(SweatStep(TearStep(PupilStep(c, pc))), ddir))

animation_timer_cb(s, current_time, bc, pc, idl, ddir, hdir) ==
  animation_timer_cb_rest(s, BlinkOrTransition(s, current_time), current_time,
                          bc, pc, idl, ddir, hdir)

(* ---------------------- draw_eye and draw_mouth ------------------------ *)
\* What a draw call puts on its canvas: the sequence of lv_draw_rect /
\* lv_draw_line calls it makes, in order.  shape names the composition the
\* primitive belongs to, part the lv_area_t variable (or the line) drawn;
\* area is <<x1, y1, x2, y2>> for eye_area and iris_area and is left out
\* (NoArea) for the other primitives.
NoArea == <<>>

Rect(shape, part, area) == [prim |-> "rect", shape |-> shape, part |-> part, area |-> area]

Line(shape, part) == [prim |-> "line", shape |-> shape, part |-> part, area |-> NoArea]

\* the primitives of a for loop that draws p on each of its n rounds
Repeat(p, n) == [i \in 1..n |-> p]

\* bool show_sweat of draw_eye with both eyes sweating for FACE_SLEEPY
show_sweat_both(s, is_left) ==
  s.current_emotion = FACE_WORKING_HARD \/ s.current_emotion = FACE_SLEEPY

\* bool show_sweat of draw_eye
show_sweat(s, is_left) ==
  s.current_emotion = FACE_WORKING_HARD \/ (s.current_emotion = FACE_SLEEPY /\ is_left)

\* draw_eye(canvas, openness, is_left).  The products with the double
\* constants 0.75, 0.6 and 0.55, converted to int16_t, are the truncated
\* quotients written here for every 16-bit operand.
draw_eye(s, canvas, openness, is_left) ==
  IF canvas = NULL THEN <<>> ELSE
  LET width       == s.eye_cw
      height      == s.eye_cw
      eye_width   == (3 * width) \div 4
      eye_height  == IF (eye_width * openness) \div 100 < 8
                       THEN 8 ELSE (eye_width * openness) \div 100
      center_x    == width \div 2
      center_y    == CDiv(6 * height + 10 * s.bounce_offset, 10)
      eye_area    == <<center_x - eye_width \div 2, center_y - eye_height \div 2,
                       center_x + eye_width \div 2, center_y + eye_height \div 2>>
      iris_width  == (55 * eye_width) \div 100
      iris_height == IF (3 * eye_height) \div 4 > iris_width
                       THEN iris_width ELSE (3 * eye_height) \div 4
      \* the four clamps of the iris centre, in the order of the source
      x0 == center_x + s.pupil_offset_x
      x1 == IF x0 - iris_width \div 2 < center_x - eye_width \div 2 + 3
              THEN center_x - eye_width \div 2 + iris_width \div 2 + 3 ELSE x0
      iris_center_x ==
            IF x1 + iris_width \div 2 > center_x + eye_width \div 2 - 3
              THEN center_x + eye_width \div 2 - iris_width \div 2 - 3 ELSE x1
      y0 == center_y + s.pupil_offset_y
      y1 == IF y0 - iris_height \div 2 < center_y - eye_height \div 2 + 3
              THEN center_y - eye_height \div 2 + iris_height \div 2 + 3 ELSE y0
      iris_center_y ==
            IF y1 + iris_height \div 2 > center_y + eye_height \div 2 - 3
              THEN center_y + eye_height \div 2 - iris_height \div 2 - 3 ELSE y1
      iris_area   == <<iris_center_x - iris_width \div 2, iris_center_y - iris_height \div 2,
                       iris_center_x + iris_width \div 2, iris_center_y + iris_height \div 2>>
      eyebrow == <<Line("eyebrow", "eyebrow")>>
      blush   == IF s.blush_intensity > 0
                   THEN <<Rect("blush", "blush_area", NoArea)>> ELSE <<>>
      heart   == <<Rect("heart", "bottom_tip", NoArea), Rect("heart", "lower_mid", NoArea),
                   Rect("heart", "upper_mid", NoArea), Rect("heart", "left_bump", NoArea),
                   Rect("heart", "right_bump", NoArea), Rect("heart", "center_fill", NoArea),
                   Rect("heart", "left_smooth", NoArea), Rect("heart", "right_smooth", NoArea),
                   Rect("heart", "highlight", NoArea), Rect("heart", "highlight", NoArea)>>
                 \o (IF s.sparkle_phase > 0
                       THEN Repeat(Rect("heart", "spark_area", NoArea), 6) ELSE <<>>)
      iris    == IF openness > 30 /\ eye_height > 16
                   THEN <<Rect("outlined", "iris_area", iris_area),
                          Rect("outlined", "pupil_area", NoArea),
                          Rect("outlined", "highlight_area", NoArea),
                          Rect("outlined", "highlight_area", NoArea)>>
                   ELSE <<>>
      outlined == <<Rect("outlined", "eye_area", eye_area)>> \o iris
                  \o (IF s.sparkle_phase > 0
                        THEN Repeat(Rect("outlined", "spark_area", NoArea), 3) ELSE <<>>)
      closed  == <<Line("closed", "lash")>> \o Repeat(Line("closed", "lash_tick"), 4)
      body    == IF s.current_emotion = FACE_LOVE /\ openness > 20 THEN heart
                 ELSE IF openness > 20 THEN outlined
                 ELSE closed
      sweat   == IF show_sweat(s, is_left)
                   THEN <<Rect("sweat", "drop_area", NoArea), Rect("sweat", "shine_area", NoArea)>>
                   ELSE <<>>
      tear    == IF s.current_emotion = FACE_CRY /\ openness > 30
                   THEN <<Rect("tear", "tear_area", NoArea), Line("tear", "trail")>>
                   ELSE <<>>
  IN  eyebrow \o blush \o body \o sweat \o tear

\* draw_mouth(canvas, curve).  diamond_factor is the float nearest to
\* diamond_mouth_phase / 100.0 and is compared with the double 0.3: the
\* float nearest to 0.3 is greater than the double, so the test holds from
\* diamond_mouth_phase = 30 on.
draw_mouth(s, canvas, curve) ==
  IF canvas = NULL THEN <<>> ELSE
  IF s.current_emotion = FACE_WORKING_HARD
    THEN <<Rect("gritted", "mouth_area", NoArea), Rect("gritted", "teeth_area", NoArea)>>
         \o Repeat(Line("gritted", "tooth_line"), 3)
  ELSE IF curve > 65
    THEN <<Rect("open", "mouth_area", NoArea)>>
         \o (IF curve > 100 THEN <<Rect("open", "tongue_area", NoArea)>> ELSE <<>>)
         \o (IF curve > 85 THEN Repeat(Rect("open", "spark_area", NoArea), 2) ELSE <<>>)
  ELSE IF curve > 35 /\ curve < 65
    THEN (IF s.diamond_mouth_phase >= 30
            THEN Repeat(Rect("o", "diamond_area", NoArea), 5)
            ELSE <<Rect("o", "mouth_area", NoArea)>>)
         \o Repeat(Rect("o", "spark_area", NoArea), 4)
  ELSE IF curve < -35
    THEN <<Rect("frown", "mouth_area", NoArea)>>
         \o (IF curve < -50
               THEN <<Rect("frown", "tear_area", NoArea), Rect("frown", "tear_area", NoArea),
                      Line("frown", "tear_trail"), Line("frown", "tear_trail")>>
               ELSE <<>>)
  ELSE <<Rect("bar", "mouth_area", NoArea)>>

(* ------------------- what each operation does, in order ----------------- *)
\* "lock" / "unlock": a call of face_lock() / face_unlock(); "write": one or
\* more assignments to face_state; "draw_eye" / "draw_mouth": a call of it
Draws == <<"draw_eye", "draw_eye", "draw_mouth">>

\* face_animation_init_trace whose allocation-failure path returns without
\* face_unlock()
face_animation_init_trace_nounlock(s, ok) ==
  IF s.initialized THEN <<>>
  ELSE IF ~(ok.left_eye_buf /\ ok.right_eye_buf /\ ok.mouth_buf)
    THEN <<"lock", "write">>
    ELSE <<"lock", "write">> \o Draws \o <<"write", "unlock", "write">>

face_animation_init_trace(s, ok) ==
  IF s.initialized THEN <<>>
  ELSE IF ~(ok.left_eye_buf /\ ok.right_eye_buf /\ ok.mouth_buf)
    THEN <<"lock", "write", "unlock">>
    ELSE <<"lock", "write">> \o Draws \o <<"write", "unlock", "write">>

face_animation_deinit_trace(s) ==
  IF ~s.initialized THEN <<>>
  ELSE IF s.anim_timer # NULL THEN <<"lock", "write", "unlock", "write">>
  ELSE <<"lock", "unlock", "write">>

face_set_emotion_trace(s, emotion, smooth) ==
  IF ~s.initialized \/ emotion >= FACE_EMOTION_COUNT THEN <<>>
  ELSE IF smooth THEN <<"write">>
  ELSE <<"write", "lock">> \o Draws \o <<"unlock">>

face_set_eye_openness_trace(s) ==
  IF ~s.initialized THEN <<>>
  ELSE <<"write", "lock", "draw_eye", "draw_eye", "unlock">>

face_set_mouth_shape_trace(s) ==
  IF ~s.initialized THEN <<>>
  ELSE <<"write", "lock", "draw_mouth", "unlock">>

face_set_auto_blink_trace == <<"write">>

face_trigger_blink_trace(s) ==
  IF ~s.initialized \/ s.is_blinking THEN <<>> ELSE <<"write">>

face_set_position_trace(s) ==
  IF ~s.initialized THEN <<>> ELSE <<"lock", "unlock">>

\* animation_timer_cb on an initialized face, redraw its needs_redraw
animation_timer_cb_trace(redraw) ==
  IF redraw THEN <<"write">> \o Draws ELSE <<"write">>

(* ------------------------- history variables --------------------------- *)
\* last_op is [op, a, b]: the operation name and two integer arguments
\* (face_set_emotion: emotion, smooth as 0/1; face_set_eye_openness: the two
\* arguments as written; face_set_mouth_shape: the argument as written;
\* tick: the branch of the if / else-if chain that ran, see TickBranch)
Op(name, a, b) == [op |-> name, a |-> a, b |-> b]

BranchNotInit == 0
BranchBlink == 1
BranchAutoBlink == 2
BranchTransition == 3
BranchNone == 4

\* which branch of the if / else-if chain of animation_timer_cb runs
TickBranch(s, current_time) ==
  IF ~s.initialized THEN BranchNotInit
  ELSE IF s.is_blinking THEN BranchBlink
  ELSE IF AutoBlinkDue(s, current_time) THEN BranchAutoBlink
  ELSE IF TransitionDue(s) THEN BranchTransition
  ELSE BranchNone

\* the six base channels of a face_state
Channels(s) ==
  [left_eye |-> s.left_eye_openness, right_eye |-> s.right_eye_openness,
   mouth |-> s.mouth_curve, left_brow |-> s.left_eyebrow_angle,
   right_brow |-> s.right_eyebrow_angle, brow_height |-> s.eyebrow_height]

\* the six base channels of the profile of an emotion
ProfileChannels(e) ==
  [left_eye |-> EmotionCase(e).left_eye, right_eye |-> EmotionCase(e).right_eye,
   mouth |-> EmotionCase(e).mouth, left_brow |-> EmotionCase(e).left_brow,
   right_brow |-> EmotionCase(e).right_brow, brow_height |-> EmotionCase(e).brow_height]

NoConv == [k |-> -1, e |-> 0]
NoPreBlink == [valid |-> FALSE, left_eye |-> 0, right_eye |-> 0]
NoRetarget == [k |-> -1, e |-> 0, src |-> Channels(ZeroState)]

\* how animation_timer_cb was entered: by the LVGL timer, or by a call of
\* face_animation_update()
ByTimer == 0
ByUpdate == 1

IsTick(op) == op.op = "tick"
AcceptedSetEmotion(op, s) ==
  op.op = "face_set_emotion" /\ s.initialized /\ op.a < FACE_EMOTION_COUNT
InFlight(s) == s.initialized /\ TransitionDue(s)

\* s is the face_state before the operation op, t the one after it
Observe(op, s, t) ==
  /\ last_op' = op
  /\ calls' = IF IsTick(op) /\ op.b = ByTimer THEN calls ELSE calls + 1
  /\ conv' =
       IF /\ AcceptedSetEmotion(op, s) /\ op.b = 1 /\ op.a \in Selectable
          /\ last_op.op = "face_set_emotion" /\ last_op.b = 0
          /\ last_op.a \in Selectable /\ last_op.a # op.a
          /\ ~s.is_blinking
         THEN [k |-> 0, e |-> op.a]
       ELSE IF IsTick(op) /\ op.a = BranchTransition /\ conv.k \in 0..9
         THEN [conv EXCEPT !.k = @ + 1]
       ELSE NoConv
  /\ blink_ticks' =
       IF op.op = "face_trigger_blink" /\ s.initialized /\ ~s.is_blinking THEN 0
       ELSE IF IsTick(op) /\ op.a = BranchAutoBlink THEN 0
       ELSE IF IsTick(op) /\ op.a = BranchBlink /\ blink_ticks \in 0..4 THEN blink_ticks + 1
       ELSE IF IsTick(op) /\ op.a # BranchNotInit /\ blink_ticks = 5 THEN -1
       ELSE IF op.op \in {"face_animation_deinit", "face_animation_init"} /\ t # s THEN -1
       ELSE blink_ticks
  /\ pre_blink' =
       IF /\ op.op = "face_trigger_blink" /\ s.initialized /\ ~s.is_blinking
          /\ s.transition_progress = 100 /\ s.current_emotion = s.target_emotion
          /\ s.current_emotion \in Selectable
         THEN [valid |-> TRUE, left_eye |-> s.left_eye_openness,
               right_eye |-> s.right_eye_openness]
       ELSE IF IsTick(op) /\ op.a = BranchBlink THEN pre_blink
       ELSE NoPreBlink
  /\ retarget' =
       IF /\ AcceptedSetEmotion(op, s) /\ op.b = 1 /\ op.a \in Selectable
          /\ InFlight(s) /\ s.transition_progress > 0
          /\ op.a # s.current_emotion /\ op.a # s.target_emotion
         THEN [k |-> 0, e |-> op.a, src |-> Channels(s)]
       ELSE IF IsTick(op) /\ op.a = BranchTransition /\ retarget.k >= 0
         THEN [retarget EXCEPT !.k = @ + 1]
       ELSE NoRetarget
  /\ last_requested' =
       IF AcceptedSetEmotion(op, s) THEN op.a
       ELSE IF op.op \in {"face_animation_deinit", "face_animation_init"} /\ t # s THEN -1
       ELSE last_requested
  /\ superseded' =
       IF AcceptedSetEmotion(op, s)
         THEN IF op.b = 1 /\ InFlight(s) /\ op.a # s.target_emotion
                THEN (superseded \cup {s.target_emotion}) \ {op.a}
                ELSE superseded \ {op.a}
       ELSE IF op.op \in {"face_animation_deinit", "face_animation_init"} /\ t # s THEN {}
       ELSE superseded
  /\ UNCHANGED <<drawn, race>>

(* ------------------------------ actions -------------------------------- *)
\* the locals of a context that has not run yet, and the race of a
\* behaviour with one execution context
NoLoc ==
  [entry |-> ZeroState, p |-> 0,
   t |-> EmotionCase(FACE_NEUTRAL), c |-> EmotionCase(FACE_NEUTRAL)]

NoStart ==
  [fs |-> ZeroState, bc |-> 0, pc |-> 0, idle |-> 0, ddir |-> 1, hdir |-> -1,
   lv_tick |-> U32(0, 0)]

NoRace ==
  [prog |-> <<"", "">>, pc |-> <<"done", "done">>, owner |-> 0, arg |-> 0,
   loc |-> <<NoLoc, NoLoc>>, start |-> NoStart, stale |-> FALSE]

Init ==
  /\ face_state = ZeroState
  /\ bounce_counter = 0
  /\ pupil_counter = 0
  /\ idle = 0
  /\ diamond_direction = 1
  /\ heart_direction = -1
  /\ lv_tick \in StartTicks
  /\ env = EmptyEnv
  /\ calls = 0
  /\ op_trace = <<>>
  /\ last_op = Op("start", 0, 0)
  /\ conv = NoConv
  /\ blink_ticks = -1
  /\ pre_blink = NoPreBlink
  /\ retarget = NoRetarget
  /\ last_requested = -1
  /\ superseded = {}
  /\ drawn = <<>>
  /\ race = NoRace

statics == <<bounce_counter, pupil_counter, idle, diamond_direction, heart_direction>>

\* a public call: t is the face_state, e the environment and tr the trace it leaves
CallEnv(op, t, e, tr) ==
  /\ calls < MaxCalls
  /\ face_state' = t
  /\ env' = e
  /\ op_trace' = tr
  /\ UNCHANGED <<statics, lv_tick>>
  /\ Observe(op, face_state, t)

\* a public call that leaves the environment alone
Call(op, t, tr) == CallEnv(op, t, env, tr)

FaceAnimationInit ==
  \E config \in Configs, ok \in MallocOutcomes :
    LET done(r) == CallEnv(Op("face_animation_init", r.ret, config.blink_interval.lo),
                           r.fs, r.env, face_animation_init_trace(face_state, ok))
    IN  done(face_animation_init(face_state, env, config, lv_tick, ok))

FaceAnimationDeinit ==
  LET done(r) == CallEnv(Op("face_animation_deinit", 0, 0), r.fs, r.env,
                         face_animation_deinit_trace(face_state))
  IN  done(face_animation_deinit(face_state, env))

FaceSetPosition ==
  \E arg \in PositionArgs :
    CallEnv(Op("face_set_position", arg[1], arg[2]), face_state,
            face_set_position(face_state, env, arg[1], arg[2]),
            face_set_position_trace(face_state))

FaceSetEmotion ==
  \E emotion \in EmotionArgs, smooth \in BOOLEAN :
    Call(Op("face_set_emotion", emotion, IF smooth THEN 1 ELSE 0),
         face_set_emotion(face_state, emotion, smooth),
         face_set_emotion_trace(face_state, emotion, smooth))

FaceSetEyeOpenness ==
  \E arg \in EyeArgs :
    Call(Op("face_set_eye_openness", arg[1], arg[2]),
         face_set_eye_openness(face_state, arg[1], arg[2]),
         face_set_eye_openness_trace(face_state))

FaceSetMouthShape ==
  \E value \in MouthArgs :
    Call(Op("face_set_mouth_shape", value, 0), face_set_mouth_shape(face_state, value),
         face_set_mouth_shape_trace(face_state))

FaceSetAutoBlink ==
  \E enable \in BOOLEAN :
    Call(Op("face_set_auto_blink", IF enable THEN 1 ELSE 0, 0),
         face_set_auto_blink(face_state, enable), face_set_auto_blink_trace)

FaceTriggerBlink ==
  Call(Op("face_trigger_blink", 0, 0), face_trigger_blink(face_state),
       face_trigger_blink_trace(face_state))

\* one run of animation_timer_cb at time lv_tick + DEFAULT_ANIM_SPEED_MS
RunTimerCb(entry) ==
  LET now == U32Add(lv_tick, DEFAULT_ANIM_SPEED_MS)
      bc  == bounce_counter + 1
      pc  == pupil_counter + 1
      \* r is what the callback leaves in face_state and in its statics
      store(r) ==
        /\ lv_tick' = now
        /\ bounce_counter' = bc
        /\ pupil_counter' = pc
        /\ face_state' = r.fs
        /\ idle' = r.idle
        /\ diamond_direction' = r.diamond_direction
        /\ heart_direction' = r.heart_direction
        /\ env' = env
        /\ op_trace' = animation_timer_cb_trace(r.needs_redraw)
        /\ Observe(Op("tick", TickBranch(face_state, now), entry), face_state, r.fs)
  IN  IF ~face_state.initialized
        THEN /\ UNCHANGED <<prog_vars>>
             /\ op_trace' = <<>>
             /\ Observe(Op("tick", BranchNotInit, entry), face_state, face_state)
        ELSE /\ bounce_counter < MaxTicks
             /\ store(animation_timer_cb(face_state, now, bc, pc, idle,
                                         diamond_direction, heart_direction))

\* the LVGL timer created by face_animation_init fires
TimerTick ==
  /\ face_state.anim_timer \in env.live
  /\ RunTimerCb(ByTimer)

\* face_animation_update(): runs the callback if the timer exists
FaceAnimationUpdate ==
  /\ calls < MaxCalls
  /\ IF face_state.anim_timer # NULL
       THEN RunTimerCb(ByUpdate)
       ELSE /\ UNCHANGED <<prog_vars>>
            /\ op_trace' = <<>>
            /\ Observe(Op("tick", BranchNotInit, ByUpdate), face_state, face_state)

Next ==
  \/ FaceAnimationInit
  \/ FaceAnimationDeinit
  \/ FaceSetEmotion
  \/ FaceSetEyeOpenness
  \/ FaceSetMouthShape
  \/ FaceSetAutoBlink
  \/ FaceTriggerBlink
  \/ FaceSetPosition
  \/ TimerTick
  \/ FaceAnimationUpdate

Spec == Init /\ [][Next]_vars

(* ------------------ the draw functions on their own -------------------- *)
\* face_animation_init on a fresh program with every allocation succeeding
InitFace(config) ==
  face_animation_init(ZeroState, EmptyEnv, config, U32(0, 0),
                      [left_eye_buf |-> TRUE, right_eye_buf |-> TRUE, mouth_buf |-> TRUE])

\* the initialized faces the draw functions are run on
DrawFaces == { InitFace(config) : config \in Configs }

\* the value ranges of the fields and parameters the draw functions read
Emotions == FACE_NEUTRAL .. FACE_BLINK
Openness == 0 .. 100
Int8 == -128 .. 127

\* face states for draw_mouth: every curve of the int8_t range under every
\* emotion, with the eyes closed or open and both forms of the 'O' mouth
MouthInputs(s) ==
  { [s EXCEPT !.current_emotion = e, !.target_emotion = e, !.mouth_curve = c,
              !.left_eye_openness = o, !.right_eye_openness = o,
              !.diamond_mouth_phase = d] :
      e \in Emotions, c \in Int8, o \in {0, 100}, d \in {0, 30} }

\* face states for draw_eye: every openness under every emotion, without and
\* with blush and sparkles
EyeInputs(s) ==
  { [s EXCEPT !.current_emotion = e, !.target_emotion = e,
              !.left_eye_openness = o, !.right_eye_openness = o,
              !.blush_intensity = b, !.sparkle_phase = b] :
      e \in Emotions, o \in Openness, b \in {0, 70} }

\* face states for the iris of draw_eye: every openness above 30 with every
\* pupil_offset_x and every pupil_offset_y of the int8_t range (the clamps
\* of the two axes do not read each other's operands)
IrisInputs(s) ==
  { [s EXCEPT !.left_eye_openness = o, !.right_eye_openness = o,
              !.pupil_offset_x = p, !.pupil_offset_y = -1 - p] :
      o \in 31 .. 100, p \in Int8 }

InitDraw ==
  /\ \E f \in DrawFaces :
       /\ env = f.env
       /\ \/ face_state \in MouthInputs(f.fs)
          \/ face_state \in EyeInputs(f.fs)
          \/ face_state \in IrisInputs(f.fs)
  /\ bounce_counter = 0
  /\ pupil_counter = 0
  /\ idle = 0
  /\ diamond_direction = 1
  /\ heart_direction = -1
  /\ lv_tick = U32(0, 0)
  /\ calls = 0
  /\ op_trace = <<>>
  /\ last_op = Op("start", 0, 0)
  /\ conv = NoConv
  /\ blink_ticks = -1
  /\ pre_blink = NoPreBlink
  /\ retarget = NoRetarget
  /\ last_requested = -1
  /\ superseded = {}
  /\ drawn = <<>>
  /\ race = NoRace

\* a draw call: op names the function and its arguments, d is what it draws
DrawCall(op, d) ==
  /\ drawn' = d
  /\ last_op' = op
  /\ UNCHANGED <<prog_vars, calls, op_trace, conv, blink_ticks, pre_blink,
                 retarget, last_requested, superseded, race>>

\* draw_eye(face_state.left_eye_canvas, face_state.left_eye_openness, true)
DrawLeftEye ==
  DrawCall(Op("draw_eye", face_state.left_eye_openness, 1),
           draw_eye(face_state, face_state.left_eye_canvas,
                    face_state.left_eye_openness, TRUE))

\* draw_eye(face_state.right_eye_canvas, face_state.right_eye_openness, false)
DrawRightEye ==
  DrawCall(Op("draw_eye", face_state.right_eye_openness, 0),
           draw_eye(face_state, face_state.right_eye_canvas,
                    face_state.right_eye_openness, FALSE))

\* draw_mouth(face_state.mouth_canvas, face_state.mouth_curve)
DrawMouth ==
  DrawCall(Op("draw_mouth", face_state.mouth_curve, 0),
           draw_mouth(face_state, face_state.mouth_canvas, face_state.mouth_curve))

NextDraw ==
  \/ DrawLeftEye
  \/ DrawRightEye
  \/ DrawMouth

SpecDraw == InitDraw /\ [][NextDraw]_vars

(* ------------- ticks from any value of the per-emotion ramps ------------ *)
\* The ramps of animation_timer_cb need up to 101 ticks to run through.  The
\* behaviours of SpecTick start from an initialized face on which
\* face_set_emotion(e, false) was called and whose ramp already holds one of
\* the values the ticks give it, and go on with ticks.

\* values of tear_fall_offset: 0, 2, ..., 80
TearValues == { 2 * k : k \in 0 .. 40 }

\* values of sweat_drop_offset: 0 .. 100 (steps of 1 under FACE_SLEEPY)
SweatValues == 0 .. 100

\* values of diamond_mouth_phase: 0 outside FACE_SURPRISED, and 50, 58, ..,
\* 98, 100, 92, .., 52 on the way up and down
DiamondValues == {0, 100} \cup { 50 + 8 * k : k \in 0 .. 6 } \cup { 100 - 8 * k : k \in 1 .. 6 }

TearInputs(s) ==
  { [face_set_emotion(s, e, FALSE) EXCEPT !.tear_fall_offset = v] :
      e \in Emotions, v \in TearValues }

SweatInputs(s) ==
  { [face_set_emotion(s, e, FALSE) EXCEPT !.sweat_drop_offset = v] :
      e \in Emotions, v \in SweatValues }

DiamondInputs(s) ==
  { [face_set_emotion(s, e, FALSE) EXCEPT !.diamond_mouth_phase = v] :
      e \in Emotions, v \in DiamondValues }

InitTick ==
  /\ \E f \in DrawFaces :
       /\ env = f.env
       /\ \/ face_state \in TearInputs(f.fs) /\ diamond_direction = 1
          \/ face_state \in SweatInputs(f.fs) /\ diamond_direction = 1
          \/ face_state \in DiamondInputs(f.fs) /\ diamond_direction \in {1, -1}
  /\ bounce_counter = 0
  /\ pupil_counter = 0
  /\ idle = 0
  /\ heart_direction = -1
  /\ lv_tick = U32(0, 0)
  /\ calls = 0
  /\ op_trace = <<>>
  /\ last_op = Op("start", 0, 0)
  /\ conv = NoConv
  /\ blink_ticks = -1
  /\ pre_blink = NoPreBlink
  /\ retarget = NoRetarget
  /\ last_requested = -1
  /\ superseded = {}
  /\ drawn = <<>>
  /\ race = NoRace

NextTick ==
  \/ TimerTick
  \/ FaceAnimationUpdate

SpecTick == InitTick /\ [][NextTick]_vars

(* ------------- the head of the callback under fair ticking ------------- *)
\* SpecLive follows the if / else-if chain at the head of animation_timer_cb
\* (lines 1328-1394) through ticks without end.  The rest of the callback
\* neither reads nor writes is_blinking, blink_phase, last_blink_time and
\* transition_progress, reads current_emotion only, and runs on counters
\* that never repeat; it is left out here.  The code reads the clock only in
\* current_time - last_blink_time (line 1354): the two are kept relative to
\* the last blink, and an elapsed time beyond LiveCap is kept at LiveCap, so
\* that the states of a face that ticks forever repeat.

\* blink intervals in ms: 0, below the period of the timer, three periods
LiveIntervals == {0, 20, 90}

\* face_config_t values: auto-blink off and on with every interval
LiveConfigs ==
  { [parent |-> NULL, animation_speed |-> DEFAULT_ANIM_SPEED_MS,
     blink_interval |-> U32(0, i), auto_blink |-> a] :
      i \in LiveIntervals, a \in BOOLEAN }

\* arguments of face_set_emotion(E, true)
LiveEmotions == {FACE_NEUTRAL, FACE_HAPPY, FACE_SAD}

\* an elapsed time that exceeds every interval of LiveIntervals
LiveCap == U32(0, 300)

\* s with last_blink_time as the origin of the clock
Rebase(s) == [s EXCEPT !.last_blink_time = U32(0, 0)]

\* current_time relative to the last_blink_time of s
Elapsed(s, current_time) ==
  LET d == U32Sub(current_time, s.last_blink_time)
  IN  IF U32Gt(d, LiveCap) THEN LiveCap ELSE d

InitLive ==
  /\ \E config \in LiveConfigs :
       /\ face_state = InitFace(config).fs
       /\ env = InitFace(config).env
  /\ bounce_counter = 0
  /\ pupil_counter = 0
  /\ idle = 0
  /\ diamond_direction = 1
  /\ heart_direction = -1
  /\ lv_tick = U32(0, 0)
  /\ calls = 0
  /\ op_trace = <<>>
  /\ last_op = Op("start", 0, 0)
  /\ conv = NoConv
  /\ blink_ticks = -1
  /\ pre_blink = NoPreBlink
  /\ retarget = NoRetarget
  /\ last_requested = -1
  /\ superseded = {}
  /\ drawn = <<>>
  /\ race = NoRace

\* what the actions of SpecLive leave alone: the statics of the rest of the
\* callback and the history of the calls
LiveRest ==
  <<bounce_counter, pupil_counter, idle, diamond_direction, heart_direction,
    env, op_trace, conv, blink_ticks, pre_blink, retarget, last_requested,
    superseded, drawn, race>>

\* the LVGL timer fires: one pass through the chain
LiveTick ==
  LET now == U32Add(lv_tick, DEFAULT_ANIM_SPEED_MS)
      t   == BlinkOrTransition(face_state, now)
  IN  /\ face_state.anim_timer \in env.live
      /\ face_state' = Rebase(t)
      /\ lv_tick' = Elapsed(t, now)
      /\ last_op' = Op("tick", TickBranch(face_state, now), ByTimer)
      /\ UNCHANGED <<calls, LiveRest>>

\* face_set_emotion(e, true)
LiveSetEmotion ==
  \E e \in LiveEmotions :
    /\ calls < MaxCalls
    /\ face_state' = face_set_emotion(face_state, e, TRUE)
    /\ last_op' = Op("face_set_emotion", e, 1)
    /\ calls' = calls + 1
    /\ UNCHANGED <<lv_tick, LiveRest>>

\* face_trigger_blink()
LiveTriggerBlink ==
  /\ calls < MaxCalls
  /\ face_state' = face_trigger_blink(face_state)
  /\ last_op' = Op("face_trigger_blink", 0, 0)
  /\ calls' = calls + 1
  /\ UNCHANGED <<lv_tick, LiveRest>>

NextLive ==
  \/ LiveTick
  \/ LiveSetEmotion
  \/ LiveTriggerBlink

\* lv_timer_create(animation_timer_cb, animation_speed, NULL): the timer
\* fires again and again
SpecLive == InitLive /\ [][NextLive]_vars /\ WF_vars(LiveTick)

(* ------------------- two execution contexts at once -------------------- *)
\* SpecRace runs two functions of the source in two execution contexts, a
\* statement or a block of statements at a time.  race.prog[c] is the
\* function context c runs and race.pc[c] the place it has reached;
\* race.owner is the context inside face_lock() .. face_unlock() (0: none;
\* the installed lock function blocks a second context); race.arg is the
\* emotion passed to face_set_emotion(emotion, false); race.loc[c] holds the
\* locals of the context; race.start is the program state both contexts
\* start from; race.stale tells that a canvas was drawn on after
\* face_animation_deinit deleted it.
Contexts == {1, 2}

RacePairs ==
  { <<"face_animation_init", "face_animation_init">>,
    <<"face_animation_deinit", "face_set_emotion">>,
    <<"face_animation_deinit", "face_set_eye_openness">>,
    <<"face_animation_deinit", "animation_timer_cb">>,
    <<"face_set_emotion", "animation_timer_cb">> }

\* emotions of the transition under way and of the immediate set
RaceEmotions == {FACE_NEUTRAL, FACE_HAPPY, FACE_ANGRY}

\* ticks made before the two contexts start
RaceTicks == {0, 3}

\* one whole tick of the timer on the program state st
TickOf(st) ==
  LET now == U32Add(st.lv_tick, DEFAULT_ANIM_SPEED_MS)
      next(r) == [fs |-> r.fs, bc |-> st.bc + 1, pc |-> st.pc + 1, idle |-> r.idle,
                  ddir |-> r.diamond_direction, hdir |-> r.heart_direction,
                  lv_tick |-> now]
  IN  next(animation_timer_cb(st.fs, now, st.bc + 1, st.pc + 1, st.idle, st.ddir, st.hdir))

RECURSIVE TicksOf(_, _)
TicksOf(st, k) == IF k = 0 THEN st ELSE TicksOf(TickOf(st), k - 1)

\* the program states the contexts start from: an initialized face, after
\* face_set_emotion(e, true) and k ticks
RaceStarts(s) ==
  { TicksOf([NoStart EXCEPT !.fs = face_set_emotion(s, e, TRUE)], k) :
      e \in RaceEmotions, k \in RaceTicks }

InitRace ==
  /\ \E f \in DrawFaces, pair \in RacePairs, e \in RaceEmotions :
       \E st \in IF pair[1] = "face_animation_init" THEN {NoStart} ELSE RaceStarts(f.fs) :
         /\ face_state = st.fs
         /\ env = IF pair[1] = "face_animation_init" THEN EmptyEnv ELSE f.env
         /\ bounce_counter = st.bc
         /\ pupil_counter = st.pc
         /\ idle = st.idle
         /\ diamond_direction = st.ddir
         /\ heart_direction = st.hdir
         /\ lv_tick = st.lv_tick
         /\ race = [NoRace EXCEPT !.prog = pair, !.pc = <<"guard", "guard">>,
                                  !.arg = e, !.start = st]
  /\ calls = 0
  /\ op_trace = <<>>
  /\ last_op = Op("start", 0, 0)
  /\ conv = NoConv
  /\ blink_ticks = -1
  /\ pre_blink = NoPreBlink
  /\ retarget = NoRetarget
  /\ last_requested = -1
  /\ superseded = {}
  /\ drawn = <<>>

At(c, prog, label) == race.prog[c] = prog /\ race.pc[c] = label

\* a step of context c that leaves the face_state fs and the environment e
\* and goes on at label
RaceStep(c, fs, e, label) ==
  /\ face_state' = fs
  /\ env' = e
  /\ race' = [race EXCEPT !.pc[c] = label]
  /\ UNCHANGED <<statics, lv_tick, calls, op_trace, last_op, conv, blink_ticks,
                 pre_blink, retarget, last_requested, superseded, drawn>>

\* the same with the locals loc, and stale telling whether the step used a
\* deleted object
RaceStepLoc(c, fs, loc, stale, label) ==
  /\ face_state' = fs
  /\ race' = [race EXCEPT !.pc[c] = label, !.loc[c] = loc, !.stale = @ \/ stale]
  /\ UNCHANGED <<env, statics, lv_tick, calls, op_trace, last_op, conv, blink_ticks,
                 pre_blink, retarget, last_requested, superseded, drawn>>

\* the canvases among objs that are not NULL (draw_eye and draw_mouth return
\* at once on a NULL canvas) and no longer exist
Deleted(objs, e) == { o \in objs : o # NULL /\ o \notin e.live }

Canvases(s) == {s.left_eye_canvas, s.right_eye_canvas, s.mouth_canvas}

\* face_lock(): waits while the other context holds the lock
RaceLock(c) ==
  /\ race.pc[c] = "lock"
  /\ race.owner = 0
  /\ race' = [race EXCEPT !.owner = c, !.pc[c] = "locked"]
  /\ UNCHANGED <<prog_vars, calls, op_trace, last_op, conv, blink_ticks,
                 pre_blink, retarget, last_requested, superseded, drawn>>

\* face_unlock(); the setters return after it
RaceUnlock(c) ==
  /\ race.pc[c] = "unlock"
  /\ race' = [race EXCEPT !.owner = 0,
                          !.pc[c] = IF race.prog[c] \in {"face_set_emotion", "face_set_eye_openness"}
                                      THEN "done" ELSE "unlocked"]
  /\ UNCHANGED <<prog_vars, calls, op_trace, last_op, conv, blink_ticks,
                 pre_blink, retarget, last_requested, superseded, drawn>>

\* face_animation_init(NULL): the test of initialized (lines 143-147), the
\* body between face_lock() and face_unlock() (150-250), and
\* face_state.initialized = true (254)
RaceInit(c) ==
  LET config == [parent |-> NULL, animation_speed |-> DEFAULT_ANIM_SPEED_MS,
                 blink_interval |-> U32(0, DEFAULT_BLINK_INTERVAL), auto_blink |-> TRUE]
      ok == [left_eye_buf |-> TRUE, right_eye_buf |-> TRUE, mouth_buf |-> TRUE]
      body(r) == RaceStep(c, [r.fs EXCEPT !.initialized = face_state.initialized],
                          r.env, "unlock")
  IN  \/ /\ At(c, "face_animation_init", "guard")
         /\ RaceStep(c, face_state, env, IF face_state.initialized THEN "done" ELSE "lock")
      \/ /\ At(c, "face_animation_init", "locked")
         /\ body(face_animation_init_run(face_state, env, config, lv_tick, ok))
      \/ /\ At(c, "face_animation_init", "unlocked")
         /\ RaceStep(c, [face_state EXCEPT !.initialized = TRUE], env, "done")

\* face_animation_deinit(): the test of initialized, the deletions between
\* face_lock() and face_unlock(), the three free() calls, the memset
RaceDeinit(c) ==
  \/ /\ At(c, "face_animation_deinit", "guard")
     /\ RaceStep(c, face_state, env, IF face_state.initialized THEN "lock" ELSE "done")
  \/ /\ At(c, "face_animation_deinit", "locked")
     /\ RaceStep(c, [face_state EXCEPT !.anim_timer = NULL],
                 if_lv_obj_del(face_state.face_container,
                 if_lv_obj_del(face_state.mouth_canvas,
                 if_lv_obj_del(face_state.right_eye_canvas,
                 if_lv_obj_del(face_state.left_eye_canvas,
                 if_release(face_state.anim_timer, env))))), "unlock")
  \/ /\ At(c, "face_animation_deinit", "unlocked")
     /\ RaceStep(c, face_state,
                 if_release(face_state.mouth_buf,
                 if_release(face_state.right_eye_buf,
                 if_release(face_state.left_eye_buf, env))), "memset")
  \/ /\ At(c, "face_animation_deinit", "memset")
     /\ RaceStep(c, ZeroState, env, "done")

\* the six assignments of face_set_emotion (lines 1995-2000)
StoreChannels(s, out) ==
  [s EXCEPT !.left_eye_openness   = out.left_eye,
            !.right_eye_openness  = out.right_eye,
            !.mouth_curve         = out.mouth,
            !.left_eyebrow_angle  = out.left_brow,
            !.right_eyebrow_angle = out.right_brow,
            !.eyebrow_height      = out.brow_height]

\* face_set_emotion(race.arg, false), statement by statement
RaceSetEmotion(c) ==
  LET looked(r) == RaceStepLoc(c, r.fs, [race.loc[c] EXCEPT !.c = r.out], FALSE, "store")
  IN  \/ /\ At(c, "face_set_emotion", "guard")
         /\ RaceStep(c, face_state, env,
                     IF ~face_state.initialized \/ race.arg >= FACE_EMOTION_COUNT
                       THEN "done" ELSE "target")
      \/ /\ At(c, "face_set_emotion", "target")
         /\ RaceStep(c, [face_state EXCEPT !.target_emotion = race.arg], env, "current")
      \/ /\ At(c, "face_set_emotion", "current")
         /\ RaceStep(c, [face_state EXCEPT !.current_emotion = race.arg,
                                           !.transition_progress = 100], env, "lookup")
      \/ /\ At(c, "face_set_emotion", "lookup")
         /\ looked(update_emotion_parameters(face_state, race.arg))
      \/ /\ At(c, "face_set_emotion", "store")
         /\ RaceStep(c, StoreChannels(face_state, race.loc[c].c), env, "lock")
      \/ /\ At(c, "face_set_emotion", "locked")
         /\ RaceStepLoc(c, face_state, race.loc[c],
                        Deleted(Canvases(face_state), env) # {}, "unlock")

\* face_set_eye_openness(left_eye, right_eye)
RaceSetEyeOpenness(c) ==
  \/ /\ At(c, "face_set_eye_openness", "guard")
     /\ RaceStep(c, face_state, env, IF face_state.initialized THEN "store" ELSE "done")
  \/ /\ At(c, "face_set_eye_openness", "store")
     /\ \E arg \in EyeArgs :
          RaceStep(c, face_set_eye_openness(face_state, arg[1], arg[2]), env, "lock")
  \/ /\ At(c, "face_set_eye_openness", "locked")
     /\ RaceStepLoc(c, face_state, race.loc[c],
                    Deleted({face_state.left_eye_canvas, face_state.right_eye_canvas}, env) # {},
                    "unlock")

\* transition_progress += 10 and the test that ends the transition (lines
\* 1362-1368)
TransitionAdvance(s) ==
  LET p1 == ToUint8(s.transition_progress + 10)
  IN  IF p1 >= 100
        THEN [s EXCEPT !.transition_progress = 100, !.current_emotion = s.target_emotion]
        ELSE [s EXCEPT !.transition_progress = p1]

\* the six interpolating assignments (lines 1380-1391): c and t are the
\* looked-up values of current_emotion and target_emotion, p the value read
\* from transition_progress
TransitionBlend(s, c, t, p) ==
  [s EXCEPT
     !.left_eye_openness   = ToUint8(Interpolate(c.left_eye, t.left_eye, p)),
     !.right_eye_openness  = ToUint8(Interpolate(c.right_eye, t.right_eye, p)),
     !.mouth_curve         = ToInt8(Interpolate(c.mouth, t.mouth, p)),
     !.left_eyebrow_angle  = ToInt8(Interpolate(c.left_brow, t.left_brow, p)),
     !.right_eyebrow_angle = ToInt8(Interpolate(c.right_brow, t.right_brow, p)),
     !.eyebrow_height      = ToInt8(Interpolate(c.brow_height, t.brow_height, p))]

\* animation_timer_cb(timer): the test of initialized and lv_tick_get(), the
\* if / else-if chain with the transition branch in three blocks, and the
\* callback from the counters on with its draw calls.  The tick takes no
\* lock.  The six assignments read transition_progress, which the other
\* context writes without synchronization: they see the value this context
\* read before or the value stored now.
RaceTick(c) ==
  LET now == U32Add(lv_tick, DEFAULT_ANIM_SPEED_MS)
      chained(s) ==
        IF TickBranch(s, lv_tick) = BranchTransition
          THEN RaceStepLoc(c, TransitionAdvance(s),
                           [race.loc[c] EXCEPT !.entry = s,
                                               !.p = TransitionAdvance(s).transition_progress],
                           FALSE, "lookup")
          ELSE RaceStepLoc(c, BlinkOrTransition(s, lv_tick),
                           [race.loc[c] EXCEPT !.entry = s], FALSE, "rest")
      second(t, cc) ==
        RaceStepLoc(c, cc.fs, [race.loc[c] EXCEPT !.t = t.out, !.c = cc.out], FALSE, "blend")
      first(t) == second(t, update_emotion_parameters(t.fs, face_state.current_emotion))
      rest(r) ==
        /\ face_state' = r.fs
        /\ bounce_counter' = bounce_counter + 1
        /\ pupil_counter' = pupil_counter + 1
        /\ idle' = r.idle
        /\ diamond_direction' = r.diamond_direction
        /\ heart_direction' = r.heart_direction
        /\ race' = [race EXCEPT !.pc[c] = "done",
                                !.stale = @ \/ (/\ r.needs_redraw
                                                /\ Deleted(Canvases(r.fs), env) # {})]
        /\ UNCHANGED <<env, lv_tick, calls, op_trace, last_op, conv, blink_ticks,
                       pre_blink, retarget, last_requested, superseded, drawn>>
  IN  \/ /\ At(c, "animation_timer_cb", "guard")
         /\ face_state' = face_state
         /\ lv_tick' = IF face_state.initialized THEN now ELSE lv_tick
         /\ race' = [race EXCEPT !.pc[c] = IF face_state.initialized THEN "chain" ELSE "done"]
         /\ UNCHANGED <<env, statics, calls, op_trace, last_op, conv, blink_ticks,
                        pre_blink, retarget, last_requested, superseded, drawn>>
      \/ /\ At(c, "animation_timer_cb", "chain")
         /\ chained(face_state)
      \/ /\ At(c, "animation_timer_cb", "lookup")
         /\ first(update_emotion_parameters(face_state, face_state.target_emotion))
      \/ /\ At(c, "animation_timer_cb", "blend")
         /\ \E p \in {race.loc[c].p, face_state.transition_progress} :
              RaceStepLoc(c, TransitionBlend(face_state, race.loc[c].c, race.loc[c].t, p),
                          race.loc[c], FALSE, "rest")
      \/ /\ At(c, "animation_timer_cb", "rest")
         /\ rest(animation_timer_cb_rest(race.loc[c].entry, face_state, lv_tick,
                                         bounce_counter + 1, pupil_counter + 1, idle,
                                         diamond_direction, heart_direction))

NextRace ==
  \/ \E c \in Contexts : RaceLock(c)
  \/ \E c \in Contexts : RaceUnlock(c)
  \/ \E c \in Contexts : RaceInit(c)
  \/ \E c \in Contexts : RaceDeinit(c)
  \/ \E c \in Contexts : RaceSetEmotion(c)
  \/ \E c \in Contexts : RaceSetEyeOpenness(c)
  \/ \E c \in Contexts : RaceTick(c)

SpecRace == InitRace /\ [][NextRace]_vars

(* ============================ properties ============================== *)
Clamp(x, lo, hi) == IF x < lo THEN lo ELSE IF x > hi THEN hi ELSE x

ChannelNames == {"left_eye", "right_eye", "mouth", "left_brow", "right_brow", "brow_height"}

\* the base channels the idle motion of an emotion assigns on a settled tick
\* (the assignments under "if (transition_done ...)" of the idle switch)
IdleChannels(e) ==
  CASE e \in {FACE_LOVE, FACE_SLEEPY, FACE_SURPRISED, FACE_CRY, FACE_EXCITED, FACE_COOL} ->
         {"left_eye", "right_eye"}
    [] e = FACE_HAPPY -> {"left_eye", "right_eye", "mouth"}
    [] e = FACE_WORRIED -> {"left_brow", "right_brow", "brow_height", "mouth"}
    [] e = FACE_ANGRY -> {"mouth", "left_brow", "right_brow"}
    [] e = FACE_SMIRK -> {"left_brow", "brow_height"}
    [] e = FACE_PLAYFUL -> {"mouth"}
    [] e = FACE_CONFUSED -> {"left_brow", "right_brow", "brow_height"}
    [] e = FACE_NEUTRAL -> {"left_brow", "right_brow", "brow_height", "mouth"}
    [] OTHER -> {}

(* ------------------------------- C1 ------------------------------------ *)
\* C1 as stated: after face_set_emotion(E1,false), face_set_emotion(E2,true)
\* and k ticks (no blink, no auto-blink) transition_progress = 10*k, and after
\* the 10th tick current_emotion = E2 and the six base channels equal
\* profileOf(E2).
C1_Convergence ==
  /\ conv.k \in 1..10 => face_state.transition_progress = 10 * conv.k
  /\ conv.k = 10 => /\ face_state.current_emotion = conv.e
                    /\ Channels(face_state) = ProfileChannels(conv.e)

\* C1 amended: transition_progress = 10*k after the k-th tick; after the 10th
\* tick current_emotion = E2 and every base channel that the idle motion of
\* E2 does not assign on a settled tick equals profileOf(E2).
C1_ConvergenceAmended ==
  /\ conv.k \in 1..10 => face_state.transition_progress = 10 * conv.k
  /\ conv.k = 10 => /\ face_state.current_emotion = conv.e
                    /\ \A c \in ChannelNames \ IdleChannels(conv.e) :
                         Channels(face_state)[c] = ProfileChannels(conv.e)[c]

C1_Witness ==
  /\ conv.k = 10
  /\ IdleChannels(conv.e) # {}
  /\ Channels(face_state) # ProfileChannels(conv.e)

(* ------------------------------- C2 ------------------------------------ *)
\* C2: immediately after face_set_emotion(E,false) on an initialized face, for
\* a selectable E, current_emotion = target_emotion = E, transition_progress =
\* 100 and the six base channels hold the literal profile of E (Love is
\* 95/95/80/3/3/-3, Neutral is 100/100/0/0/0/0).
C2_ImmediateSet ==
  (/\ last_op.op = "face_set_emotion" /\ last_op.b = 0
   /\ last_op.a \in Selectable /\ face_state.initialized)
  => /\ face_state.current_emotion = last_op.a
     /\ face_state.target_emotion = last_op.a
     /\ face_state.transition_progress = 100
     /\ Channels(face_state) = ProfileChannels(last_op.a)
     /\ last_op.a = FACE_LOVE =>
          Channels(face_state) = [left_eye |-> 95, right_eye |-> 95, mouth |-> 80,
                                  left_brow |-> 3, right_brow |-> 3, brow_height |-> -3]
     /\ last_op.a = FACE_NEUTRAL =>
          Channels(face_state) = [left_eye |-> 100, right_eye |-> 100, mouth |-> 0,
                                  left_brow |-> 0, right_brow |-> 0, brow_height |-> 0]

\* an immediate set made in the middle of a blink
C2_Witness ==
  /\ last_op.op = "face_set_emotion" /\ last_op.b = 0 /\ last_op.a = FACE_LOVE
  /\ face_state.initialized /\ face_state.is_blinking
  /\ face_state.blink_phase > 0

(* ------------------------------- C3 ------------------------------------ *)
\* C3: a blink started by face_trigger_blink has blink_phase 0 at the start,
\* is still in progress after each of the next 4 ticks (blink_phase 20 per
\* tick) and is over, with blink_phase 0, after the 5th tick; calls of
\* face_trigger_blink made during the blink do not change this count.
C3_BlinkCycle ==
  /\ blink_ticks \in 0..4 => /\ face_state.is_blinking
                             /\ face_state.blink_phase = 20 * blink_ticks
  /\ blink_ticks = 5 => /\ ~face_state.is_blinking
                        /\ face_state.blink_phase = 0

\* a second face_trigger_blink made while the blink is in progress
C3_Witness ==
  /\ last_op.op = "face_trigger_blink"
  /\ blink_ticks \in 1..4
  /\ face_state.is_blinking

(* ------------------------------- C4 ------------------------------------ *)
\* C4 as stated: when a blink triggered on a settled face has run its 5 ticks
\* with no other public call in between, both eyes have the openness they
\* had immediately before the trigger.
C4_BlinkRoundTrip ==
  (pre_blink.valid /\ blink_ticks = 5)
  => /\ face_state.left_eye_openness = pre_blink.left_eye
     /\ face_state.right_eye_openness = pre_blink.right_eye

(* ------------------------------- C5 ------------------------------------ *)
\* C5 as stated: every tick that starts with current_emotion # target_emotion
\* and transition_progress < 100 advances transition_progress by 10 (clamped
\* to 100), also while a blink is in progress or being started.
C5_BlinkOrthogonal ==
  [][ (IsTick(last_op') /\ face_state.initialized /\ TransitionDue(face_state))
      => face_state'.transition_progress =
           Clamp(face_state.transition_progress + 10, 0, 100) ]_vars

(* ------------------------------- C6 ------------------------------------ *)
\* C6 as stated: a smooth re-target made in mid-transition resets
\* transition_progress to 0 and the following ticks interpolate every base
\* channel from its value at the moment of the call toward profileOf(E3).
C6_RetargetSource ==
  /\ retarget.k = 0 => face_state.transition_progress = 0
  /\ (retarget.k >= 1 /\ face_state.transition_progress < 100)
     => \A c \in ChannelNames :
          Channels(face_state)[c] =
            Interpolate(retarget.src[c], ProfileChannels(retarget.e)[c],
                        face_state.transition_progress)

(* ------------------------------- C7 ------------------------------------ *)
\* C7: whenever a tick changes current_emotion, the new value is the emotion
\* of the most recent accepted face_set_emotion call and is no target that
\* was superseded by a later request.
C7_LastWriteWins ==
  [][ (IsTick(last_op') /\ face_state'.current_emotion # face_state.current_emotion)
      => /\ face_state'.current_emotion = last_requested
         /\ face_state'.current_emotion \notin superseded ]_vars

\* a transition completed after an earlier smooth target had been superseded
C7_Witness ==
  /\ IsTick(last_op) /\ last_op.a = BranchTransition
  /\ face_state.transition_progress = 100
  /\ face_state.current_emotion = last_requested
  /\ superseded # {}

(* ------------------------------- C8 ------------------------------------ *)
\* C8 as stated: face_set_eye_openness(l, r) on an initialized face stores
\* (clamp(l,0,100), clamp(r,0,100)) for every integer a caller can write.
C8_EyeClamp ==
  (last_op.op = "face_set_eye_openness" /\ face_state.initialized)
  => /\ face_state.left_eye_openness = Clamp(last_op.a, 0, 100)
     /\ face_state.right_eye_openness = Clamp(last_op.b, 0, 100)

(* ------------------------------- C9 ------------------------------------ *)
\* C9 as stated: face_set_mouth_shape(v) on an initialized face stores
\* mouth_curve = max(-100, min(100, v)) for every integer a caller can write.
C9_MouthClamp ==
  (last_op.op = "face_set_mouth_shape" /\ face_state.initialized)
  => face_state.mouth_curve = Clamp(last_op.a, -100, 100)

(* ------------------------------- C10 ----------------------------------- *)
\* C10 as stated: in every state both eye openness values are in [0,100] and
\* mouth_curve is in [-100,100].
C10_ChannelRanges ==
  /\ face_state.left_eye_openness \in 0..100
  /\ face_state.right_eye_openness \in 0..100
  /\ face_state.mouth_curve \in -100..100

\* C10 amended: in every state both eye openness values are in [0,100] and
\* mouth_curve is in [-100,115] (the Playful profile is 110 and its idle
\* motion moves the mouth around 105).
C10_ChannelRangesAmended ==
  /\ face_state.left_eye_openness \in 0..100
  /\ face_state.right_eye_openness \in 0..100
  /\ face_state.mouth_curve \in -100..115

\* the mouth above 100 while Playful is idling
C10_Witness ==
  /\ IsTick(last_op)
  /\ face_state.current_emotion = FACE_PLAYFUL
  /\ face_state.mouth_curve > 110

\* the operation made no call of draw_eye or draw_mouth
NoDraw(tr) == \A i \in DOMAIN tr : tr[i] \notin {"draw_eye", "draw_mouth"}

(* ------------------------------- C11 ----------------------------------- *)
\* C11: face_set_emotion with an identifier that is no emotion of the
\* enumeration (>= FACE_EMOTION_COUNT) leaves every field of face_state as
\* it was and makes no draw call, whatever smooth is.
C11_UnrecognizedIgnored ==
  [][ (last_op'.op = "face_set_emotion" /\ last_op'.a >= FACE_EMOTION_COUNT)
      => /\ face_state' = face_state
         /\ NoDraw(op_trace') ]_vars

\* an unrecognized identifier was passed with smooth = false to an
\* initialized face in the middle of a transition
C11_Witness ==
  /\ last_op.op = "face_set_emotion" /\ last_op.a >= FACE_EMOTION_COUNT /\ last_op.b = 0
  /\ face_state.initialized
  /\ InFlight(face_state)

(* ------------------------------- C12 ----------------------------------- *)
\* C12 as stated: in every state neither current_emotion nor target_emotion
\* is FACE_BLINK.
C12_BlinkNotSelectable ==
  /\ face_state.current_emotion # FACE_BLINK
  /\ face_state.target_emotion # FACE_BLINK

(* ------------------------------- C13 ----------------------------------- *)
\* C13 as stated: a setter, face_trigger_blink, face_set_position,
\* face_animation_update or face_animation_deinit called on a face that is
\* not initialized changes no field of face_state (configuration included),
\* moves nothing and makes no draw call.
C13_NoOpBeforeInit ==
  [][ (~face_state.initialized /\ last_op'.op # "face_animation_init")
      => /\ face_state' = face_state
         /\ env' = env
         /\ NoDraw(op_trace') ]_vars

(* ------------------------------- C14 ----------------------------------- *)
\* C14: face_animation_init on an initialized face returns ESP_OK and
\* changes nothing: face_state (emotion, channels, progress, blink state,
\* stored configuration, buffer / canvas / timer pointers) and the set of
\* allocated blocks, objects and timers are as before, whatever config is
\* passed.
C14_DoubleInitNoOp ==
  [][ (face_state.initialized /\ last_op'.op = "face_animation_init")
      => /\ last_op'.a = ESP_OK
         /\ face_state' = face_state
         /\ env' = env ]_vars

\* face_animation_init returned without entering its body (empty trace) on
\* a face in the middle of a transition, with a config whose blink_interval
\* differs from the stored one
C14_Witness ==
  /\ last_op.op = "face_animation_init" /\ last_op.a = ESP_OK
  /\ op_trace = <<>>
  /\ InFlight(face_state)
  /\ face_state.config.blink_interval.lo # last_op.b

(* ------------------------------- C15 ----------------------------------- *)
\* the three pixel buffers face_state points to
Buffers(s) == {s.left_eye_buf, s.right_eye_buf, s.mouth_buf} \ {NULL}

\* C15 as stated: when face_animation_init returns ESP_ERR_NO_MEM the face
\* is not initialized and no buffer allocated by that call is still allocated.
C15_AllocFailureReleases ==
  (last_op.op = "face_animation_init" /\ last_op.a = ESP_ERR_NO_MEM)
  => /\ ~face_state.initialized
     /\ Buffers(face_state) \cap env.live = {}

(* ------------------------------- C16 ----------------------------------- *)
\* C16: nothing is freed or deleted when it no longer exists, and
\* face_animation_deinit on a face that is not initialized (a second deinit
\* in a row, or a face never initialized) changes nothing and calls nothing.
C16_IdempotentTeardown ==
  [][ /\ env'.twice = {}
      /\ (~face_state.initialized /\ last_op'.op = "face_animation_deinit")
         => /\ face_state' = face_state
            /\ env' = env
            /\ op_trace' = <<>> ]_vars

\* a second face_animation_deinit in a row: the first init's container,
\* buffers, canvases and timer (1..8) were created and all are gone
C16_Witness ==
  /\ last_op.op = "face_animation_deinit"
  /\ op_trace = <<>>
  /\ env.next > 8
  /\ env.live = {}

(* ------------------------------- C17 ----------------------------------- *)
\* C17: the step of every face_animation_init that initializes the face ends
\* with current = target = FACE_NEUTRAL, the Neutral channels 100/100/0/0/0/0,
\* transition_progress = 100, no blink in progress and blush, sparkle and
\* heartbeat at 0.
C17_InitialState ==
  [][ (/\ last_op'.op = "face_animation_init" /\ last_op'.a = ESP_OK
       /\ ~face_state.initialized)
      => /\ face_state'.initialized
         /\ face_state'.current_emotion = FACE_NEUTRAL
         /\ face_state'.target_emotion = FACE_NEUTRAL
         /\ face_state'.left_eye_openness = 100
         /\ face_state'.right_eye_openness = 100
         /\ face_state'.mouth_curve = 0
         /\ face_state'.left_eyebrow_angle = 0
         /\ face_state'.right_eyebrow_angle = 0
         /\ face_state'.eyebrow_height = 0
         /\ face_state'.transition_progress = 100
         /\ ~face_state'.is_blinking
         /\ face_state'.blush_intensity = 0
         /\ face_state'.sparkle_phase = 0
         /\ face_state'.heart_beat_phase = 0 ]_vars

\* a successful init that follows a deinit: it is the second init (its
\* container is not object 1) and everything of the first one is gone
C17_Witness ==
  /\ last_op.op = "face_animation_init" /\ last_op.a = ESP_OK
  /\ face_state.initialized
  /\ op_trace # <<>>
  /\ face_state.face_container > 1
  /\ Cardinality(env.live) = 8

(* ------------------------------- C18 ----------------------------------- *)
\* every write to face_state and every draw call of the trace lies between
\* a "lock" and the "unlock" that follows it
Locked(tr) ==
  \A i \in DOMAIN tr :
    tr[i] \in {"write", "draw_eye", "draw_mouth"}
    => \E j \in 1..(i - 1) :
         /\ tr[j] = "lock"
         /\ \A k \in j..i : tr[k] # "unlock"

\* C18 as stated: every state write and every draw call made by a setter, by
\* face_trigger_blink, by face_set_auto_blink and by a tick entered through
\* face_animation_update happens between face_lock() and face_unlock().
C18_LockDiscipline ==
  (\/ last_op.op \in {"face_set_emotion", "face_set_eye_openness", "face_set_mouth_shape",
                      "face_set_auto_blink", "face_trigger_blink", "face_set_position"}
   \/ IsTick(last_op) /\ last_op.b = ByUpdate)
  => Locked(op_trace)

(* ------------------------------- C19 ----------------------------------- *)
\* C19 as stated: on every initialized face, looking up the profile of any
\* emotion face_set_emotion accepts leaves face_state as it was.
C19_PureLookup ==
  face_state.initialized
  => \A e \in FACE_NEUTRAL .. FACE_BLINK :
       update_emotion_parameters(face_state, e).fs = face_state

(* ------------------------------- C20 ----------------------------------- *)
\* the effect levels of an emotion's profile: those its case of
\* update_emotion_parameters assigns, and 0 / 0 / 0 for FACE_NEUTRAL
Baseline(e) ==
  IF e = FACE_NEUTRAL
    THEN [blush_intensity |-> 0, sparkle_phase |-> 0, heart_beat_phase |-> 0]
    ELSE [blush_intensity  |-> EmotionCase(e).blush_intensity,
          sparkle_phase    |-> EmotionCase(e).sparkle_phase,
          heart_beat_phase |-> EmotionCase(e).heart_beat_phase]

\* C20 as stated: right after face_set_emotion(E, false) with E selectable,
\* on an initialized face, blush_intensity, sparkle_phase and
\* heart_beat_phase are the baseline of E.
C20_BaselineEffects ==
  [][ (AcceptedSetEmotion(last_op', face_state) /\ last_op'.b = 0 /\ last_op'.a \in Selectable)
      => /\ face_state'.blush_intensity = Baseline(last_op'.a).blush_intensity
         /\ face_state'.sparkle_phase = Baseline(last_op'.a).sparkle_phase
         /\ face_state'.heart_beat_phase = Baseline(last_op'.a).heart_beat_phase ]_vars

(* ------------------------------- C21 ----------------------------------- *)
\* the object whose size face_animation_init reads for the stored config
ParentOf(s) == IF s.config.parent # NULL THEN s.config.parent ELSE Screen

\* C21: in every state of an initialized face, face_sz is the smaller side
\* of the parent, eye_cw = mouth_cw = floor(0.45 * face_sz) and mouth_ch =
\* floor(0.38 * face_sz) (60, 60, 51 on the 135 x 135 screen), and no step
\* that leaves the face initialized changes any of the four.
C21_DerivedGeometry ==
  [][ face_state'.initialized
      => /\ face_state'.face_sz \in { lv_obj_get_size(ParentOf(face_state'))[1],
                                     lv_obj_get_size(ParentOf(face_state'))[2] }
         /\ face_state'.face_sz <= lv_obj_get_size(ParentOf(face_state'))[1]
         /\ face_state'.face_sz <= lv_obj_get_size(ParentOf(face_state'))[2]
         /\ face_state'.eye_cw = (45 * face_state'.face_sz) \div 100
         /\ face_state'.mouth_cw = (45 * face_state'.face_sz) \div 100
         /\ face_state'.mouth_ch = (38 * face_state'.face_sz) \div 100
         /\ (ParentOf(face_state') = Screen
             => /\ face_state'.eye_cw = 60
                /\ face_state'.mouth_cw = 60
                /\ face_state'.mouth_ch = 51)
         /\ (face_state.initialized
             => /\ face_state'.face_sz = face_state.face_sz
                /\ face_state'.eye_cw = face_state.eye_cw
                /\ face_state'.mouth_cw = face_state.mouth_cw
                /\ face_state'.mouth_ch = face_state.mouth_ch) ]_vars

\* a tick on a face initialized on the 320 x 240 parent, after a setter call
C21_Witness ==
  /\ IsTick(last_op) /\ last_op.a # BranchNotInit
  /\ face_state.config.parent = HostObj
  /\ face_state.face_sz = 240
  /\ face_state.eye_cw = 108
  /\ calls >= 2

C23_Interpolation ==
  [][ /\ IsTick(last_op') /\ last_op'.a = BranchTransition
      /\ face_state'.transition_progress < 100
      => \A n \in ChannelNames :
           /\ Channels(face_state')[n] =
                ProfileChannels(face_state'.current_emotion)[n]
                + CDiv((ProfileChannels(face_state'.target_emotion)[n]
                        - ProfileChannels(face_state'.current_emotion)[n])
                       * face_state'.transition_progress, 100)
           /\ \/ /\ ProfileChannels(face_state'.current_emotion)[n] <= Channels(face_state')[n]
                 /\ Channels(face_state')[n] <= ProfileChannels(face_state'.target_emotion)[n]
              \/ /\ ProfileChannels(face_state'.target_emotion)[n] <= Channels(face_state')[n]
                 /\ Channels(face_state')[n] <= ProfileChannels(face_state'.current_emotion)[n] ]_vars

\* a transition tick at p = 70 between two emotions whose mouth curve
\* decreases, so that the truncated quotient is not the floor
C23_Witness ==
  /\ IsTick(last_op) /\ last_op.a = BranchTransition
  /\ face_state.transition_progress = 70
  /\ ProfileChannels(face_state.target_emotion).mouth
       < ProfileChannels(face_state.current_emotion).mouth
  /\ ((ProfileChannels(face_state.target_emotion).mouth
       - ProfileChannels(face_state.current_emotion).mouth) * 70) % 100 # 0

(* ------------------------------- C24 ----------------------------------- *)
\* C24 as stated: every tick that leaves is_blinking true leaves both eyes at
\* B(blink_phase), B(p) = 100 - 2p for p < 50 and 2(p - 50) for p >= 50, and
\* has advanced blink_phase by exactly 20; blink_phase is in [0,100) at the
\* end of a tick and is 0 whenever is_blinking is false.
C24_BlinkOverride ==
  [][ /\ (~face_state'.is_blinking => face_state'.blink_phase = 0)
      /\ (IsTick(last_op') /\ last_op'.a # BranchNotInit
          => /\ face_state'.blink_phase \in 0..99
             /\ (face_state'.is_blinking
                 => /\ face_state'.blink_phase = face_state.blink_phase + 20
                    /\ face_state'.left_eye_openness = face_state'.right_eye_openness
                    /\ face_state'.left_eye_openness =
                         IF face_state'.blink_phase < 50
                           THEN 100 - 2 * face_state'.blink_phase
                           ELSE 2 * (face_state'.blink_phase - 50))) ]_vars

\* C24 amended: the override and the advance by 20 hold on every tick that
\* begins with a blink in progress and leaves is_blinking true; the tick on
\* which the auto-blink timeout starts a blink leaves blink_phase = 0 and both
\* eyes untouched; blink_phase is in [0,100) at the end of a tick and is 0
\* whenever is_blinking is false.
C24_BlinkOverrideAmended ==
  [][ /\ (~face_state'.is_blinking => face_state'.blink_phase = 0)
      /\ (IsTick(last_op') /\ last_op'.a # BranchNotInit
          => /\ face_state'.blink_phase \in 0..99
             /\ (face_state.is_blinking /\ face_state'.is_blinking
                 => /\ face_state'.blink_phase = face_state.blink_phase + 20
                    /\ face_state'.left_eye_openness = face_state'.right_eye_openness
                    /\ face_state'.left_eye_openness =
                         IF face_state'.blink_phase < 50
                           THEN 100 - 2 * face_state'.blink_phase
                           ELSE 2 * (face_state'.blink_phase - 50))
             /\ (~face_state.is_blinking /\ face_state'.is_blinking
                 => /\ last_op'.a = BranchAutoBlink
                    /\ face_state'.blink_phase = 0
                    /\ face_state'.left_eye_openness = face_state.left_eye_openness
                    /\ face_state'.right_eye_openness = face_state.right_eye_openness)) ]_vars

\* third tick of a blink made during a pending transition of an emotion
\* whose idle motion animates the eyes
C24_Witness ==
  /\ IsTick(last_op) /\ last_op.a = BranchBlink
  /\ face_state.is_blinking /\ face_state.blink_phase = 60
  /\ face_state.left_eye_openness = 20
  /\ face_state.current_emotion = FACE_HAPPY
  /\ face_state.target_emotion = FACE_SAD
  /\ face_state.transition_progress < 100

(* ------------------------------- C25 ----------------------------------- *)
\* C25: a tick starts a blink exactly when, at that tick, no blink is in
\* progress, auto-blink is enabled and the time since last_blink_time
\* (difference modulo 2^32) is strictly greater than blink_interval; the tick
\* that completes a blink sets last_blink_time to the tick time; with
\* auto-blink disabled a tick never turns is_blinking on.
C25_AutoBlinkSchedule ==
  [][ IsTick(last_op') /\ last_op'.a # BranchNotInit
      => /\ (~face_state.is_blinking /\ face_state'.is_blinking
             <=> /\ ~face_state.is_blinking
                 /\ face_state.config.auto_blink
                 /\ U32Gt(U32Sub(lv_tick', face_state.last_blink_time),
                          face_state.config.blink_interval))
         /\ (face_state.is_blinking /\ ~face_state'.is_blinking
             => face_state'.last_blink_time = lv_tick')
         /\ (~face_state.is_blinking /\ ~face_state.config.auto_blink
             => ~face_state'.is_blinking) ]_vars

\* the timeout has started a blink on a tick taken after the 32-bit tick
\* counter wrapped, 120 ms after a last_blink_time taken before the wrap
C25_Witness ==
  /\ IsTick(last_op) /\ last_op.a = BranchAutoBlink
  /\ face_state.is_blinking
  /\ face_state.last_blink_time.hi = 65535
  /\ lv_tick = U32(0, 20)

(* ------------------------------- C26 ----------------------------------- *)
\* the channels the draw functions read
DrawnChannels(s) ==
  <<s.left_eye_openness, s.right_eye_openness, s.mouth_curve,
    s.left_eyebrow_angle, s.right_eyebrow_angle, s.eyebrow_height,
    s.pupil_offset_x, s.pupil_offset_y, s.bounce_offset, s.blush_intensity,
    s.sparkle_phase, s.tear_fall_offset, s.sweat_drop_offset,
    s.diamond_mouth_phase>>

\* C26: a tick that changes the value of any drawn channel (eye openness,
\* mouth curve, brow angles or height, pupil offsets, bounce offset, blush,
\* sparkle, tear, sweat or diamond phase) draws within that tick; and a tick
\* that draws makes exactly the calls draw_eye, draw_eye, draw_mouth.
C26_DirtyFlag ==
  [][ IsTick(last_op') /\ last_op'.a # BranchNotInit
      => /\ (DrawnChannels(face_state') # DrawnChannels(face_state)
             => ~NoDraw(op_trace'))
         /\ (~NoDraw(op_trace')
             => SelectSeq(op_trace', LAMBDA x : x \in {"draw_eye", "draw_mouth"}) = Draws)
    ]_vars

(* ------------------------------- C30 ----------------------------------- *)
\* C30: on every tick with current_emotion other than Love, no transition in
\* progress and heart_beat_phase > 0, heart_beat_phase decreases by 5, floored
\* at 0 (so it never increases, never wraps, and stays 0 once there).
C30_HeartbeatDecay ==
  [][ /\ IsTick(last_op') /\ last_op'.a # BranchNotInit
      /\ face_state.current_emotion # FACE_LOVE
      /\ face_state'.current_emotion # FACE_LOVE
      /\ ~TransitionDue(face_state)
      /\ face_state.heart_beat_phase > 0
      => face_state'.heart_beat_phase =
           IF face_state.heart_beat_phase >= 5
             THEN face_state.heart_beat_phase - 5 ELSE 0 ]_vars

(* ------------------------------- C27 ----------------------------------- *)
\* the compositions a draw call made, and whether it drew a given part
Shapes(d) == { d[i].shape : i \in DOMAIN d }
Has(d, part) == \E i \in DOMAIN d : d[i].part = part

\* C27 as stated: for every mouth_curve c of the int8_t range and every
\* emotion, draw_mouth draws exactly one shape, whatever the eye openness:
\* gritted teeth for Working-Hard; otherwise the wide-open mouth if c > 65
\* (tongue iff c > 100, side sparkles iff c > 85); otherwise the 'O' mouth if
\* 35 <= c < 65; otherwise the frown if c < -35 (tears iff c < -50);
\* otherwise the small bar.
C27_MouthShape ==
  last_op.op = "draw_mouth"
  => /\ Shapes(drawn) =
          { IF face_state.current_emotion = FACE_WORKING_HARD THEN "gritted"
            ELSE IF last_op.a > 65 THEN "open"
            ELSE IF 35 <= last_op.a /\ last_op.a < 65 THEN "o"
            ELSE IF last_op.a < -35 THEN "frown"
            ELSE "bar" }
     /\ ("open" \in Shapes(drawn)
         => /\ Has(drawn, "tongue_area") <=> last_op.a > 100
            /\ Has(drawn, "spark_area") <=> last_op.a > 85)
     /\ ("frown" \in Shapes(drawn)
         => (Has(drawn, "tear_area") <=> last_op.a < -50))

(* ------------------------------- C28 ----------------------------------- *)
\* the eye height draw_eye derives from the canvas size and the openness
EyeHeight(cw, o) ==
  IF (((3 * cw) \div 4) * o) \div 100 < 8 THEN 8 ELSE (((3 * cw) \div 4) * o) \div 100

\* C28: for every openness o in 0..100 and every emotion, draw_eye draws the
\* closed lash line (and no iris) iff o <= 20, the heart iff o > 20 and the
\* emotion is Love, the outlined eye otherwise, with an iris iff o > 30 and
\* the eye height exceeds 16 px; a sweat drop on both eyes for Working-Hard
\* and on the left eye only for Sleepy; an eye tear only for Cry with o > 30;
\* and the eyebrow in every case.
C28_EyeComposition ==
  last_op.op = "draw_eye"
  => /\ Shapes(drawn) \cap {"closed", "heart", "outlined"} =
          { IF last_op.a <= 20 THEN "closed"
            ELSE IF face_state.current_emotion = FACE_LOVE THEN "heart"
            ELSE "outlined" }
     /\ (Has(drawn, "iris_area")
         <=> /\ "outlined" \in Shapes(drawn)
             /\ last_op.a > 30
             /\ EyeHeight(face_state.eye_cw, last_op.a) > 16)
     /\ ("sweat" \in Shapes(drawn)
         <=> \/ face_state.current_emotion = FACE_WORKING_HARD
             \/ face_state.current_emotion = FACE_SLEEPY /\ last_op.b = 1)
     /\ ("tear" \in Shapes(drawn)
         <=> face_state.current_emotion = FACE_CRY /\ last_op.a > 30)
     /\ drawn[1].shape = "eyebrow"

\* the right eye of a Sleepy face at openness 35 on the 60 px canvas: the
\* eye is 15 px high, so the outlined eye is drawn without an iris, and the
\* right eye has no sweat drop
C28_Witness ==
  /\ last_op = Op("draw_eye", 35, 0)
  /\ face_state.current_emotion = FACE_SLEEPY
  /\ face_state.eye_cw = 60
  /\ Has(drawn, "eye_area")
  /\ ~Has(drawn, "iris_area")
  /\ ~Has(drawn, "drop_area")

(* ------------------------------- C29 ----------------------------------- *)
\* the area of the first primitive of d that draws part
AreaOf(d, part) == d[CHOOSE i \in DOMAIN d : d[i].part = part].area

\* C29: whenever draw_eye draws an iris, for every pupil offset of the
\* int8_t range, the iris rectangle lies at least 3 px inside the eye
\* outline on each of its four sides.
C29_IrisInside ==
  last_op.op = "draw_eye" /\ Has(drawn, "iris_area")
  => /\ AreaOf(drawn, "iris_area")[1] >= AreaOf(drawn, "eye_area")[1] + 3
     /\ AreaOf(drawn, "iris_area")[2] >= AreaOf(drawn, "eye_area")[2] + 3
     /\ AreaOf(drawn, "iris_area")[3] <= AreaOf(drawn, "eye_area")[3] - 3
     /\ AreaOf(drawn, "iris_area")[4] <= AreaOf(drawn, "eye_area")[4] - 3

(* ------------------------------- C31 ----------------------------------- *)
\* the emotions the claims call non-expressive
NonExpressive ==
  {FACE_NEUTRAL, FACE_ANGRY, FACE_SAD, FACE_CRY, FACE_SLEEPY, FACE_SURPRISED,
   FACE_WORKING_HARD, FACE_CONFUSED, FACE_WORRIED}

\* x lowered by step, floored at 0
Decay(x, step) == IF x >= step THEN x - step ELSE 0

\* C31: when the face leaves an expressive emotion for a non-expressive one
\* by face_set_emotion (either value of smooth), sparkle_phase and
\* blush_intensity do not snap: the call leaves them as they are, and every
\* tick that ends with a non-expressive current emotion lowers each of them
\* by 2, floored at 0.
C31_SparkleBlushFade ==
  [][ /\ (/\ AcceptedSetEmotion(last_op', face_state)
          /\ face_state.current_emotion \notin NonExpressive
          /\ last_op'.a \in NonExpressive
          => /\ face_state'.sparkle_phase = face_state.sparkle_phase
             /\ face_state'.blush_intensity = face_state.blush_intensity)
      /\ (/\ IsTick(last_op') /\ last_op'.a # BranchNotInit
          /\ face_state'.current_emotion \in NonExpressive
          => /\ face_state'.sparkle_phase = Decay(face_state.sparkle_phase, 2)
             /\ face_state'.blush_intensity = Decay(face_state.blush_intensity, 2)) ]_vars

(* ------------------------------- C32 ----------------------------------- *)
\* C32: at the end of every tick tear_fall_offset is in [0,80]; it is 0
\* unless current_emotion is Sad or Cry, where it rises by 2 per tick and
\* restarts at 0 after 80.  sweat_drop_offset is in [0,100]; it is 0 unless
\* current_emotion is Working-Hard (rising by 3 per tick) or Sleepy (rising
\* by 1 per tick), restarting at 0 once it would exceed 100.
C32_TearSweatRamps ==
  [][ IsTick(last_op') /\ last_op'.a # BranchNotInit
      => /\ face_state'.tear_fall_offset \in 0 .. 80
         /\ face_state'.tear_fall_offset =
              IF face_state'.current_emotion \in {FACE_SAD, FACE_CRY}
                THEN IF face_state.tear_fall_offset + 2 > 80
                       THEN 0 ELSE face_state.tear_fall_offset + 2
                ELSE 0
         /\ face_state'.sweat_drop_offset \in 0 .. 100
         /\ face_state'.sweat_drop_offset =
              IF face_state'.current_emotion = FACE_WORKING_HARD
                THEN IF face_state.sweat_drop_offset + 3 > 100
                       THEN 0 ELSE face_state.sweat_drop_offset + 3
              ELSE IF face_state'.current_emotion = FACE_SLEEPY
                THEN IF face_state.sweat_drop_offset + 1 > 100
                       THEN 0 ELSE face_state.sweat_drop_offset + 1
              ELSE 0 ]_vars

\* a Cry face whose tear ramp has reached 80 on the tick before and has
\* restarted, two ticks ago having been at 78
C32_Witness ==
  /\ IsTick(last_op) /\ last_op.a # BranchNotInit
  /\ face_state.current_emotion = FACE_CRY
  /\ face_state.tear_fall_offset = 0
  /\ bounce_counter = 2

(* ------------------------------- C33 ----------------------------------- *)
\* C33: at the end of every tick with current_emotion = Surprised,
\* diamond_mouth_phase is the phase before the tick moved by 8 in the current
\* direction and clamped to [50,100], and the direction is reversed exactly
\* when the phase is at 50 or at 100, whatever direction an earlier visit to
\* Surprised left; at the end of every other tick the phase is 0.
C33_DiamondPhase ==
  [][ IsTick(last_op') /\ last_op'.a # BranchNotInit
      => IF face_state'.current_emotion = FACE_SURPRISED
           THEN /\ face_state'.diamond_mouth_phase \in 50 .. 100
                /\ face_state'.diamond_mouth_phase =
                     Clamp(face_state.diamond_mouth_phase + 8 * diamond_direction, 50, 100)
                /\ diamond_direction' =
                     IF face_state'.diamond_mouth_phase = 100 THEN -1
                     ELSE IF face_state'.diamond_mouth_phase = 50 THEN 1
                     ELSE diamond_direction
           ELSE face_state'.diamond_mouth_phase = 0 ]_vars

(* ------------------------------- C34 ----------------------------------- *)
\* C34: after face_set_emotion(E,true) with E different from current_emotion
\* and no further face_set_emotion call, under fair ticking the transition
\* eventually completes (current_emotion = E and transition_progress = 100),
\* for auto-blink off and on, for every blink_interval including 0 and one
\* shorter than the tick period, and for any finite number of manual blinks.
C34_TransitionLiveness ==
  \A e \in LiveEmotions :
    [](face_state.target_emotion = e /\ face_state.current_emotion # e
       => <>(\/ face_state.current_emotion = e /\ face_state.transition_progress = 100
             \/ face_state.target_emotion # e))

(* ------------------------------- C35 ----------------------------------- *)
\* C35: after face_set_emotion(E,true) with E = current_emotion, also when E
\* is the source of a transition under way, the following ticks bring
\* transition_progress back to 100: the face is never left for ever with
\* current_emotion = target_emotion and transition_progress < 100.
C35_SmoothToCurrent ==
  [](/\ face_state.current_emotion = face_state.target_emotion
     /\ face_state.transition_progress < 100
     => <>(face_state.transition_progress = 100))

(* ------------------------------- C39 ----------------------------------- *)
\* C39: a face_animation_init that initializes the face, also one that
\* follows a face_animation_deinit, leaves the animation state of a fresh
\* program: the bounce and pupil tick counters and the Neutral idle counter
\* at 0, the diamond direction at +1 and the heartbeat direction at -1, so
\* that the ticks after it go through the states of a fresh face.
C39_ReinitFresh ==
  [][ (/\ last_op'.op = "face_animation_init" /\ last_op'.a = ESP_OK
       /\ ~face_state.initialized)
      => /\ bounce_counter' = 0
         /\ pupil_counter' = 0
         /\ idle' = 0
         /\ diamond_direction' = 1
         /\ heart_direction' = -1 ]_vars

(* ------------------------------- C40 ----------------------------------- *)
\* the number of lock calls not yet matched by an unlock call after the
\* first i entries of the trace
Held(tr, i) ==
  Cardinality({ k \in 1 .. i : tr[k] = "lock" })
  - Cardinality({ k \in 1 .. i : tr[k] = "unlock" })

\* C40: on every path through every public operation and through the tick,
\* each face_lock() is followed by exactly one face_unlock() before the
\* operation returns (also on the allocation-failure return of
\* face_animation_init and on the early returns of the setters), and
\* face_lock() is never called while the lock is held.
C40_BalancedLocking ==
  /\ \A i \in 0 .. Len(op_trace) : Held(op_trace, i) \in {0, 1}
  /\ Held(op_trace, Len(op_trace)) = 0

\* the allocation-failure return of face_animation_init
C40_Witness ==
  /\ last_op.op = "face_animation_init" /\ last_op.a = ESP_ERR_NO_MEM
  /\ ~face_state.initialized
  /\ Held(op_trace, 1) = 1
  /\ op_trace[Len(op_trace)] = "unlock"

(* ------------------------------- C36 ----------------------------------- *)
RaceDone == race.pc = <<"done", "done">>

\* C36: when face_set_emotion(E,false) has run in one context while a tick
\* ran in another, the face_state after both have finished is the one of
\* the tick followed by the call or of the call followed by the tick.
C36_SetterTickAtomic ==
  (RaceDone /\ race.prog = <<"face_set_emotion", "animation_timer_cb">>)
  => \/ face_state = face_set_emotion(TickOf(race.start).fs, race.arg, FALSE)
     \/ face_state =
          TickOf([race.start EXCEPT !.fs = face_set_emotion(@, race.arg, FALSE)]).fs

(* ------------------------------- C37 ----------------------------------- *)
\* C37: when two contexts call face_animation_init at the same time, the
\* container, the three canvases, the three buffers and the timer are
\* created once: at no time do more than these eight objects exist.
C37_ConcurrentInitOnce ==
  race.prog = <<"face_animation_init", "face_animation_init">>
  => Cardinality(env.live) <= 8

(* ------------------------------- C38 ----------------------------------- *)
\* C38: in every interleaving of face_animation_deinit with a setter or a
\* tick of another context, no draw call is made on a canvas that
\* face_animation_deinit has deleted.
C38_TeardownRace ==
  race.prog[1] = "face_animation_deinit" => ~race.stale

====
